---- MODULE Spec2Model ----
(***************************************************************************)
(* CERT-In SBOM Mapper: the content-addressed result cache                 *)
(* (cacheService), the per-component fetch/merge orchestrator              *)
(* (propertyMapperService.fetchComponentData) and the document-level       *)
(* resolver (App.onFileChange).                                            *)
(*                                                                         *)
(* JavaScript strings are TLA+ strings; a JavaScript value that reaches    *)
(* JSON.stringify is a record [t, s, e] (tag, text, children) so that key  *)
(* insertion order, nesting and undefined/null are all represented.        *)
(***************************************************************************)
EXTENDS Integers, Sequences, FiniteSets, TLC

\* ------------------------------------------------------------------------
\* JavaScript values
\* ------------------------------------------------------------------------

Undef == [t |-> "undef", s |-> "", e |-> <<>>]
Null == [t |-> "null", s |-> "", e |-> <<>>]
Str(s) == [t |-> "str", s |-> s, e |-> <<>>]
Num(s) == [t |-> "num", s |-> s, e |-> <<>>]
Bool(b) == [t |-> "bool", s |-> IF b THEN "true" ELSE "false", e |-> <<>>]
Arr(elems) == [t |-> "arr", s |-> "", e |-> elems]
\* one own property of an object: key k, value v
Mem(k, v) == [t |-> "mem", s |-> k, e |-> <<v>>]
\* an object is the sequence of its own properties in insertion order
Obj(mems) == [t |-> "obj", s |-> "", e |-> mems]

\* o.k (undefined when o has no own property k, or o is not an object)
Get(o, k) ==
  IF o.t = "obj" /\ \E i \in 1..Len(o.e) : o.e[i].s = k
  THEN LET i == CHOOSE j \in 1..Len(o.e) : o.e[j].s = k IN o.e[i].e[1]
  ELSE Undef

\* JavaScript truthiness of a value
Truthy(v) ==
  CASE v.t = "undef" -> FALSE
    [] v.t = "null" -> FALSE
    [] v.t = "str" -> v.s # ""
    [] v.t = "num" -> v.s # "0"
    [] v.t = "bool" -> v.s = "true"
    [] OTHER -> TRUE

\* a || b
OrElse(a, b) == IF Truthy(a) THEN a ELSE b

\* Object.keys(o)
ObjectKeys(o) == [i \in 1..Len(o.e) |-> o.e[i].s]

\* ------------------------------------------------------------------------
\* Strings: code units, comparison, sort, join
\* ------------------------------------------------------------------------

\* the printable ASCII characters with code units 32..95 and 97..126, in
\* order (the grave accent, code unit 96, cannot be written in a string here
\* and occurs in no input)
AsciiLow ==
  " !\"#$%&'()*+,-./0123456789:;<=>?@ABCDEFGHIJKLMNOPQRSTUVWXYZ[\\]^_"
AsciiHigh == "abcdefghijklmnopqrstuvwxyz{|}~"

CharAt(s, i) == SubSeq(s, i, i)

CharCodeTable ==
  [c \in {CharAt(AsciiLow, i) : i \in 1..Len(AsciiLow)}
          \cup {CharAt(AsciiHigh, i) : i \in 1..Len(AsciiHigh)} |->
     IF \E i \in 1..Len(AsciiLow) : CharAt(AsciiLow, i) = c
     THEN 31 + (CHOOSE i \in 1..Len(AsciiLow) : CharAt(AsciiLow, i) = c)
     ELSE 96 + (CHOOSE i \in 1..Len(AsciiHigh) : CharAt(AsciiHigh, i) = c)]

\* s.charCodeAt(i - 1)
charCodeAt(s, i) == CharCodeTable[CharAt(s, i)]

\* a < b in the order Array.prototype.sort() uses for strings (code units)
RECURSIVE StrLess(_, _)
StrLess(a, b) ==
  IF Len(b) = 0 THEN FALSE
  ELSE IF Len(a) = 0 THEN TRUE
  ELSE IF charCodeAt(a, 1) # charCodeAt(b, 1)
       THEN charCodeAt(a, 1) < charCodeAt(b, 1)
       ELSE StrLess(Tail(a), Tail(b))

RECURSIVE InsertSorted(_, _)
InsertSorted(k, sorted) ==
  IF sorted = <<>> THEN <<k>>
  ELSE IF StrLess(k, Head(sorted)) THEN <<k>> \o sorted
       ELSE <<Head(sorted)>> \o InsertSorted(k, Tail(sorted))

\* keys.sort()
RECURSIVE SortStrings(_)
SortStrings(keys) ==
  IF keys = <<>> THEN <<>>
  ELSE InsertSorted(Head(keys), SortStrings(Tail(keys)))

\* parts.join(sep)
RECURSIVE Join(_, _)
Join(parts, sep) ==
  IF parts = <<>> THEN ""
  ELSE IF Len(parts) = 1 THEN parts[1]
       ELSE parts[1] \o sep \o Join(Tail(parts), sep)

\* the elements of seq that satisfy Keep, in order
RECURSIVE SelectSeqOf(_, _)
SelectSeqOf(seq, keep) ==
  IF seq = <<>> THEN <<>>
  ELSE IF Head(seq) \in keep THEN <<Head(seq)>> \o SelectSeqOf(Tail(seq), keep)
       ELSE SelectSeqOf(Tail(seq), keep)

\* ------------------------------------------------------------------------
\* JSON.stringify(value, replacerArray)
\* ------------------------------------------------------------------------

\* QuoteJSONString: the input alphabet has no character that needs an escape
Quote(s) == "\"" \o s \o "\""

\* JSON.stringify(v, plist): with an array replacer the property list plist is
\* the list of keys serialized for EVERY object, at every depth, in plist's
\* order; keys not in plist are dropped, properties whose value is undefined
\* are skipped, and an undefined array element is written as null.
RECURSIVE SerializeJSON(_, _)
SerializeJSON(v, plist) ==
  CASE v.t = "str" -> Quote(v.s)
    [] v.t \in {"num", "bool"} -> v.s
    [] v.t = "null" -> "null"
    [] v.t = "arr" ->
         "[" \o Join([i \in 1..Len(v.e) |->
                        IF v.e[i].t = "undef" THEN "null"
                        ELSE SerializeJSON(v.e[i], plist)], ",") \o "]"
    [] v.t = "obj" ->
         LET present == {i \in 1..Len(plist) : Get(v, plist[i]).t # "undef"}
             idx == SelectSeqOf([i \in 1..Len(plist) |-> i], present)
         IN "{" \o Join([j \in 1..Len(idx) |->
                           Quote(plist[idx[j]]) \o ":"
                             \o SerializeJSON(Get(v, plist[idx[j]]), plist)], ",")
                \o "}"
    [] OTHER -> "null"

\* JSON.stringify(v): no replacer, every object writes its own keys in
\* insertion order
RECURSIVE SerializeJSONPlain(_)
SerializeJSONPlain(v) ==
  CASE v.t = "str" -> Quote(v.s)
    [] v.t \in {"num", "bool"} -> v.s
    [] v.t = "null" -> "null"
    [] v.t = "arr" ->
         "[" \o Join([i \in 1..Len(v.e) |->
                        IF v.e[i].t = "undef" THEN "null"
                        ELSE SerializeJSONPlain(v.e[i])], ",") \o "]"
    [] v.t = "obj" ->
         LET present == {i \in 1..Len(v.e) : v.e[i].e[1].t # "undef"}
             idx == SelectSeqOf([i \in 1..Len(v.e) |-> i], present)
         IN "{" \o Join([j \in 1..Len(idx) |->
                           Quote(v.e[idx[j]].s) \o ":"
                             \o SerializeJSONPlain(v.e[idx[j]].e[1])], ",")
                \o "}"
    [] OTHER -> "null"

\* ------------------------------------------------------------------------
\* The 32-bit rolling hash and its base-36 rendering
\* ------------------------------------------------------------------------

\* a 32-bit word is kept as two 16-bit halves <<hi, lo>>
Half == 65536

\* hash = ((hash << 5) - hash) + char; hash = hash & hash
\* i.e. (31 * hash + char) mod 2^32
HashStep(h, char) ==
  LET lo == 31 * h[2] + char
      hi == 31 * h[1] + (lo \div Half)
  IN <<hi % Half, lo % Half>>

\* one turn of the loop, for the character at position i (none past the end)
HashAt(h, s, i) == IF i > Len(s) THEN h ELSE HashStep(h, charCodeAt(s, i))

\* for (let i = 0; i < dataString.length; i++) { ... }, eight turns of the
\* loop at a time
RECURSIVE HashFrom(_, _, _)
HashFrom(h, s, i) ==
  IF i > Len(s) THEN h
  ELSE LET h1 == HashAt(h, s, i)
           h2 == HashAt(h1, s, i + 1)
           h3 == HashAt(h2, s, i + 2)
           h4 == HashAt(h3, s, i + 3)
           h5 == HashAt(h4, s, i + 4)
           h6 == HashAt(h5, s, i + 5)
           h7 == HashAt(h6, s, i + 6)
           h8 == HashAt(h7, s, i + 7)
       IN IF h8[1] >= 0 THEN HashFrom(h8, s, i + 8) ELSE h8

\* Math.abs of the signed 32-bit reading of h (2^31 for -2^31)
AbsInt32(h) ==
  IF h[1] < Half \div 2 THEN h
  ELSE IF h[2] = 0 THEN <<Half - h[1], 0>>
       ELSE <<Half - 1 - h[1], Half - h[2]>>

Digits36 == "0123456789abcdefghijklmnopqrstuvwxyz"

\* n.toString(36) for n = <<hi, lo>> >= 0
RECURSIVE ToString36(_)
ToString36(n) ==
  LET rh == n[1] % 36
      mid == rh * Half + n[2]
      q == <<n[1] \div 36, mid \div 36>>
      r == mid % 36
  IN IF q = <<0, 0>> THEN CharAt(Digits36, r + 1)
     ELSE ToString36(q) \o CharAt(Digits36, r + 1)

\* the "simple hash function" of both checksum generators
HashString(dataString) == ToString36(AbsInt32(HashFrom(<<0, 0>>, dataString, 1)))

\* ------------------------------------------------------------------------
\* cacheService: key and checksum generators
\* ------------------------------------------------------------------------

\* a === b; objects and arrays are compared by identity, and no two values
\* read from different places of a parsed document are the same object
StrictEq(a, b) == a.t \in {"undef", "null", "str", "num", "bool"} /\ a = b

\* component["bom-ref"] || component.bomRef
BomRefOf(component) == OrElse(Get(component, "bom-ref"), Get(component, "bomRef"))

\* v.affects && v.affects.some(a => a.ref === ref)
AffectsRef(v, ref) ==
  LET affects == Get(v, "affects")
  IN /\ Truthy(affects)
     /\ \E i \in 1..Len(affects.e) : StrictEq(Get(affects.e[i], "ref"), ref)

\* sbomVulnerabilities.filter(v => v.affects && v.affects.some(...))
AffectingVulnerabilities(component, sbomVulnerabilities) ==
  SelectSeq(sbomVulnerabilities, LAMBDA v : AffectsRef(v, BomRefOf(component)))

\* const componentData = { name, version, purl, group, externalReferences,
\*                         vulnerabilities }
componentData(component, sbomVulnerabilities) ==
  Obj(<<Mem("name", Get(component, "name")),
        Mem("version", Get(component, "version")),
        Mem("purl", Get(component, "purl")),
        Mem("group", Get(component, "group")),
        Mem("externalReferences", Get(component, "externalReferences")),
        Mem("vulnerabilities",
            Arr(AffectingVulnerabilities(component, sbomVulnerabilities)))>>)

\* the same serialization without the replacer argument
componentDataStringNoReplacer(component, sbomVulnerabilities) ==
  SerializeJSONPlain(componentData(component, sbomVulnerabilities))

\* JSON.stringify(componentData, Object.keys(componentData).sort())
componentDataString(component, sbomVulnerabilities) ==
  LET data == componentData(component, sbomVulnerabilities)
  IN SerializeJSON(data, SortStrings(ObjectKeys(data)))

generateComponentChecksum(component, sbomVulnerabilities) ==
  "component:" \o HashString(componentDataString(component, sbomVulnerabilities))

\* sbomData.components?.map(c => ({ name, version, purl, group,
\*                                   externalReferences, bomRef })) || []
fileComponents(sbomData) ==
  LET comps == Get(sbomData, "components")
  IN IF comps.t = "arr"
     THEN Arr([i \in 1..Len(comps.e) |->
                 Obj(<<Mem("name", Get(comps.e[i], "name")),
                       Mem("version", Get(comps.e[i], "version")),
                       Mem("purl", Get(comps.e[i], "purl")),
                       Mem("group", Get(comps.e[i], "group")),
                       Mem("externalReferences",
                           Get(comps.e[i], "externalReferences")),
                       Mem("bomRef", BomRefOf(comps.e[i]))>>)])
     ELSE Arr(<<>>)

\* const fileData = { components, vulnerabilities, metadata }
fileData(sbomData) ==
  Obj(<<Mem("components", fileComponents(sbomData)),
        Mem("vulnerabilities", OrElse(Get(sbomData, "vulnerabilities"), Arr(<<>>))),
        Mem("metadata",
            Obj(<<Mem("timestamp", Get(Get(sbomData, "metadata"), "timestamp")),
                  Mem("version", Get(Get(sbomData, "metadata"), "version"))>>))>>)

\* JSON.stringify(fileData, Object.keys(fileData).sort())
fileDataString(sbomData) ==
  LET data == fileData(sbomData)
  IN SerializeJSON(data, SortStrings(ObjectKeys(data)))

generateFileChecksum(sbomData) == "file:" \o HashString(fileDataString(sbomData))

\* `${type}:${params.join(':')}`
generateKey(type, params) == type \o ":" \o Join(params, ":")

\* ------------------------------------------------------------------------
\* State
\* ------------------------------------------------------------------------

VARIABLES
  fpIn,             \* the arguments of a checksum call under study
  fpOut,            \* what the call produced
  cache,            \* CacheService.cache: the Map, a function from keys to values
  sessionStartTime, \* CacheService.sessionStartTime
  storage,          \* the localStorage item under storageKey
  storageWritable,  \* whether localStorage.setItem succeeds (quota, private mode)
  now,              \* Date.now()
  ev,               \* the latest call: its operation, arguments and return value
  lastSet,          \* history: per key, the value of the latest set() still in force
  sources,          \* what the package, vulnerability and repository sources hold
  tasks,            \* the fetchComponentData calls suspended at their joint await
  degraded,         \* history: the resolutions that ended in the catch block
  runs,             \* the uploads whose background run awaits its components
  components,       \* App state: the component list on display
  completed,        \* history: the runs that cached a component list
  fetchProgress,    \* App state: the progress on display and the timers set to
                    \* reset it
  sbom,             \* App state: the document on display, null before an upload
  notification      \* App state: the notification shown last, null before any

fpVars == <<fpIn, fpOut>>
cacheVars == <<cache, sessionStartTime, storage, storageWritable, now, lastSet>>
resolveVars == <<sources, tasks, degraded>>
docVars == <<runs, components, completed, fetchProgress, sbom, notification>>
vars == <<fpIn, fpOut, cache, sessionStartTime, storage, storageWritable, now, ev,
          lastSet, sources, tasks, degraded, runs, components, completed,
          fetchProgress, sbom, notification>>

\* no checksum call under study
FpIdle == fpIn = <<>> /\ fpOut = <<>>

\* ------------------------------------------------------------------------
\* The Map behind the cache (Map.prototype.get/set/has/delete/clear)
\* ------------------------------------------------------------------------

EmptyMap == <<>>

MapHas(m, key) == key \in DOMAIN m

\* Map.get answers undefined for an absent key
MapGet(m, key) == IF key \in DOMAIN m THEN m[key] ELSE Undef

MapSet(m, key, value) ==
  [k \in DOMAIN m \cup {key} |-> IF k = key THEN value ELSE m[k]]

\* a set that keeps an existing entry: what put-if-absent would do
MapSetIfAbsent(m, key, value) ==
  [k \in DOMAIN m \cup {key} |-> IF k \in DOMAIN m THEN m[k] ELSE value]

MapDelete(m, key) == [k \in DOMAIN m \ {key} |-> m[k]]

\* ------------------------------------------------------------------------
\* CacheService: storage and the plain operations
\* ------------------------------------------------------------------------

\* localStorage.getItem answers null when nothing is stored
NoSnapshot == [kind |-> "none"]

\* the object saveToStorage serializes
Snapshot(entries, timestamp, started) ==
  [kind |-> "snapshot", cache |-> entries, timestamp |-> timestamp,
   sessionStartTime |-> started]

\* saveToStorage: setItem either stores the snapshot or throws, and the throw
\* is caught and logged
saveToStorage(entries) ==
  storage' = IF storageWritable THEN Snapshot(entries, now, sessionStartTime)
             ELSE storage

\* clearStorage: removeItem
clearStorage == storage' = NoSnapshot

\* the state after construction with nothing stored in localStorage
CacheConstructed ==
  /\ cache = EmptyMap
  /\ sessionStartTime = 0
  /\ storage = NoSnapshot
  /\ storageWritable = TRUE
  /\ now = 0
  /\ lastSet = EmptyMap

NoCall == [op |-> "none"]

\* everything but the checksum study, as construction leaves it
\* the orchestrator and the App with nothing resolved or uploaded yet
\* useState(null): no progress on display, no timer set
ProgressIdle == [value |-> Null, timers |-> 0]

NothingUploaded ==
  /\ tasks = <<>>
  /\ degraded = {}
  /\ runs = <<>>
  /\ components = <<>>
  /\ completed = {}
  /\ fetchProgress = ProgressIdle
  /\ sbom = Null
  /\ notification = Null

serviceVars == <<cacheVars, ev, resolveVars, docVars>>
ServicesConstructed ==
  /\ CacheConstructed
  /\ ev = NoCall
  /\ sources = <<>>
  /\ NothingUploaded

get(key) == MapGet(cache, key)

has(key) == MapHas(cache, key)

\* a set that would keep the entry already stored under the key
setIfAbsent(key, value) ==
  /\ cache' = MapSetIfAbsent(cache, key, value)
  /\ saveToStorage(cache')
  /\ lastSet' = MapSet(lastSet, key, value)
  /\ UNCHANGED <<sessionStartTime, storageWritable, now>>

\* a set that gives up when localStorage refuses the write
setWhenWritable(key, value) ==
  IF storageWritable
  THEN /\ cache' = [k \in DOMAIN cache \cup {key} |-> IF k = key THEN value ELSE cache[k]]
       /\ storage' = [kind |-> "snapshot", cache |-> cache', timestamp |-> now,
                      sessionStartTime |-> sessionStartTime]
       /\ lastSet' = [k \in DOMAIN lastSet \cup {key} |->
                        IF k = key THEN value ELSE lastSet[k]]
       /\ UNCHANGED <<sessionStartTime, storageWritable, now>>
  ELSE UNCHANGED cacheVars

\* set(key, value): cache.set, then saveToStorage
set(key, value) ==
  /\ cache' = MapSet(cache, key, value)
  /\ saveToStorage(cache')
  /\ lastSet' = MapSet(lastSet, key, value)
  /\ UNCHANGED <<sessionStartTime, storageWritable, now>>

\* a clear that forgets to remove the snapshot
clearKeepingSnapshot ==
  /\ cache' = <<>>
  /\ sessionStartTime' = now
  /\ lastSet' = <<>>
  /\ UNCHANGED <<storage, storageWritable, now>>

\* clear(): empties the Map, restarts the session clock, removes the snapshot
clear ==
  /\ cache' = EmptyMap
  /\ sessionStartTime' = now
  /\ clearStorage
  /\ lastSet' = EmptyMap
  /\ UNCHANGED <<storageWritable, now>>

\* getStats(): the size, the age of the session and the keys
getStats ==
  [size |-> Cardinality(DOMAIN cache), sessionDuration |-> now - sessionStartTime,
   keys |-> DOMAIN cache]

\* forceClear(): what clear() does, and a console message
forceClear == clear

\* the entry setWithTTL stores
TTLEntry(value, timestamp, ttl) ==
  [value |-> value, timestamp |-> timestamp, ttl |-> ttl]

setWithTTL(key, value, ttlMs) ==
  /\ cache' = MapSet(cache, key, TTLEntry(value, now, ttlMs))
  /\ saveToStorage(cache')
  /\ lastSet' = MapDelete(lastSet, key)
  /\ UNCHANGED <<sessionStartTime, storageWritable, now>>

\* an expiry test that lets an entry expire at the very end of its ttl
ExpiredAtTTL(entry) ==
  /\ "ttl" \in DOMAIN entry
  /\ entry.ttl > 0
  /\ (now - entry.timestamp) >= entry.ttl

\* entry.ttl > 0 && (Date.now() - entry.timestamp) > entry.ttl; an entry
\* written by set() has no ttl, and undefined > 0 is false
Expired(entry) ==
  /\ "ttl" \in DOMAIN entry
  /\ entry.ttl > 0
  /\ (now - entry.timestamp) > entry.ttl

\* entry.value; undefined when the entry was written by set()
EntryValue(entry) == IF "value" \in DOMAIN entry THEN entry.value ELSE Undef

\* the value getWithTTL(key) returns
getWithTTLResult(key) ==
  IF ~MapHas(cache, key) THEN Null
  ELSE IF Expired(cache[key]) THEN Null
  ELSE EntryValue(cache[key])

\* a getWithTTL that deletes an expired entry from the Map only
getWithTTLUnsaved(key) ==
  IF key \in DOMAIN cache /\ "ttl" \in DOMAIN cache[key] /\ cache[key].ttl > 0
     /\ (now - cache[key].timestamp) > cache[key].ttl
  THEN /\ cache' = [k \in DOMAIN cache \ {key} |-> cache[k]]
       /\ lastSet' = [k \in DOMAIN lastSet \ {key} |-> lastSet[k]]
       /\ UNCHANGED <<sessionStartTime, storage, storageWritable, now>>
  ELSE UNCHANGED cacheVars

\* getWithTTL(key): an expired entry is deleted and the deletion persisted
getWithTTL(key) ==
  IF MapHas(cache, key) /\ Expired(cache[key])
  THEN /\ cache' = MapDelete(cache, key)
       /\ saveToStorage(cache')
       /\ lastSet' = MapDelete(lastSet, key)
       /\ UNCHANGED <<sessionStartTime, storageWritable, now>>
  ELSE UNCHANGED cacheVars

\* ------------------------------------------------------------------------
\* CacheService: construction and loadFromStorage
\*
\* The localStorage item is absent (NoSnapshot), the text saveToStorage wrote
\* (Snapshot), or a text that something else left under the key (Item): its
\* form says what JSON.parse makes of it.
\* ------------------------------------------------------------------------

\* 24 * 60 * 60 * 1000
maxCacheAge == 24 * 60 * 60 * 1000

\* an item that saveToStorage did not write. form: "empty" (the empty
\* string), "unparseable", "null", "scalar" (a number, a string, true) or
\* "object"; for an object, whether it has a timestamp and a
\* sessionStartTime and what its cache property is
Item(form, hasTimestamp, timestamp, cacheField, hasStart, started) ==
  [kind |-> "item", form |-> form, hasTimestamp |-> hasTimestamp,
   timestamp |-> timestamp, cache |-> cacheField, hasStart |-> hasStart,
   sessionStartTime |-> started]

\* the cache property of a parsed item. form: "missing", "null", "number",
\* "object" (not iterable) or "list" with the given elements
CacheField(form, items) == [form |-> form, items |-> items]

\* an element of a list: form "pair" is [key, value], "short" is [key] and
\* "scalar" is a number
ListItem(form, key, value) == [form |-> form, key |-> key, value |-> value]

RECURSIVE ReviveValue(_)
\* JSON.parse(JSON.stringify(v)) of a JSON value held in an array or under a
\* key: undefined in an array becomes null, an undefined property is dropped
ReviveValue(v) ==
  CASE v.t = "undef" -> Null
    [] v.t = "arr" -> Arr([i \in 1..Len(v.e) |-> ReviveValue(v.e[i])])
    [] v.t = "obj" ->
         Obj(LET kept == SelectSeq(v.e, LAMBDA m : m.e[1].t # "undef")
             IN [i \in 1..Len(kept) |-> Mem(kept[i].s, ReviveValue(kept[i].e[1]))])
    [] OTHER -> v

\* JSON.parse(JSON.stringify(entry)) of a Map value: a JSON value, a
\* setWithTTL entry, a component list or a PropertySet
Revive(entry) ==
  IF "t" \in DOMAIN entry THEN ReviveValue(entry)
  ELSE IF "ttl" \in DOMAIN entry
  THEN IF "value" \in DOMAIN entry /\ entry.value.t # "undef"
       THEN [entry EXCEPT !.value = ReviveValue(entry.value)]
       ELSE [timestamp |-> entry.timestamp, ttl |-> entry.ttl]
  ELSE IF "components" \in DOMAIN entry THEN entry
  ELSE [k \in {j \in DOMAIN entry : entry[j].t # "undef"} |-> ReviveValue(entry[k])]

\* the entries JSON.parse gives back for the entries saveToStorage wrote
ReviveEntries(entries) == [k \in DOMAIN entries |-> Revive(entries[k])]

\* localStorage.getItem: null when nothing is stored
getItem(stored) == stored

\* if (stored): null and the empty string are falsy
StoredTruthy(stored) ==
  stored.kind = "snapshot" \/ (stored.kind = "item" /\ stored.form # "empty")

\* JSON.parse(stored) throws, or data.timestamp throws on null
ParseThrows(stored) ==
  stored.kind = "item" /\ stored.form \in {"unparseable", "null"}

\* an age test that keeps a snapshot of exactly the maximal age
StillValidInclusive(stored, t) ==
  IF stored.kind = "snapshot"
  THEN stored.timestamp # 0 /\ (t - stored.timestamp) <= 24 * 60 * 60 * 1000
  ELSE /\ stored.form = "object"
       /\ stored.hasTimestamp
       /\ stored.timestamp # 0
       /\ (t - stored.timestamp) <= 24 * 60 * 60 * 1000

\* data.timestamp && (now - data.timestamp) < this.maxCacheAge
StillValid(stored, t) ==
  IF stored.kind = "snapshot"
  THEN stored.timestamp # 0 /\ (t - stored.timestamp) < maxCacheAge
  ELSE /\ stored.form = "object"
       /\ stored.hasTimestamp
       /\ stored.timestamp # 0
       /\ (t - stored.timestamp) < maxCacheAge

\* new Map(iterable) throws: the argument is not iterable, or an element is
\* not an object
MapThrows(field) ==
  \/ field.form \in {"number", "object"}
  \/ /\ field.form = "list"
     /\ \E i \in DOMAIN field.items : field.items[i].form = "scalar"

RECURSIVE MapFromItems(_, _, _)
\* new Map(items): the elements are set in order, element[0] under
\* element[1]; a missing element[1] is undefined
MapFromItems(m, items, i) ==
  IF i > Len(items) THEN m
  ELSE MapFromItems(
         MapSet(m, items[i].key,
                IF items[i].form = "pair" THEN items[i].value ELSE Undef),
         items, i + 1)

\* new Map(data.cache || []) when it does not throw
MapFrom(field) ==
  IF field.form = "list" THEN MapFromItems(EmptyMap, field.items, 1) ELSE EmptyMap

\* data.cache of what is stored
DataCache(stored) ==
  IF stored.kind = "snapshot" THEN ReviveEntries(stored.cache)
  ELSE MapFrom(stored.cache)

\* data.sessionStartTime || Date.now()
DataSessionStartTime(stored, t) ==
  IF stored.kind = "snapshot"
  THEN IF stored.sessionStartTime # 0 THEN stored.sessionStartTime ELSE t
  ELSE IF stored.hasStart /\ stored.sessionStartTime # 0
       THEN stored.sessionStartTime
       ELSE t

\* the state a constructed CacheService is in: the fresh Map and clock, and
\* whether clearStorage was called
Constructed(entries, started, cleared) ==
  [cache |-> entries, sessionStartTime |-> started, cleared |-> cleared]

\* new CacheService() at time t with stored in localStorage: the constructor
\* followed by loadFromStorage
Construct(stored, t) ==
  IF ~StoredTruthy(getItem(stored)) THEN Constructed(EmptyMap, t, FALSE)
  ELSE IF ParseThrows(stored) THEN Constructed(EmptyMap, t, TRUE)
  ELSE IF ~StillValid(stored, t) THEN Constructed(EmptyMap, t, TRUE)
  ELSE IF stored.kind = "item" /\ MapThrows(stored.cache)
  THEN Constructed(EmptyMap, t, TRUE)
  ELSE Constructed(DataCache(stored), DataSessionStartTime(stored, t), FALSE)

\* the module is loaded: cacheService = new CacheService(); what was in
\* memory is gone
Restart ==
  LET made == Construct(storage, now)
  IN /\ cache' = made.cache
     /\ sessionStartTime' = made.sessionStartTime
     /\ IF made.cleared THEN clearStorage ELSE UNCHANGED storage
     /\ lastSet' = EmptyMap
     /\ UNCHANGED <<storageWritable, now>>

\* ------------------------------------------------------------------------
\* Inputs: uploaded components, vulnerability records, documents
\*
\* The state holds an uploaded value as a flat description of its JSON text;
\* Parse... is JSON.parse of that text, giving the value the code works on.
\* ------------------------------------------------------------------------

\* the largest number of components in a document
MaxDocComponents == 2

RepoUrl1 == "https://github.com/o/r"
RepoUrl2 == "https://github.com/o/q"

\* the externalReferences array named refs: one vcs reference to RepoUrl1
\* ("r1", or "r1k" with the reference's keys in the other order), one to
\* RepoUrl2 ("r2"), or none ("")
ParseExternalReferences(refs) ==
  CASE refs = "r1" ->
         Arr(<<Obj(<<Mem("type", Str("vcs")), Mem("url", Str(RepoUrl1))>>)>>)
    [] refs = "r1k" ->
         Arr(<<Obj(<<Mem("url", Str(RepoUrl1)), Mem("type", Str("vcs"))>>)>>)
    [] refs = "r2" ->
         Arr(<<Obj(<<Mem("type", Str("vcs")), Mem("url", Str(RepoUrl2))>>)>>)
    [] OTHER -> Undef

\* an optional string field: absent when the text is empty
OptStr(text) == IF text = "" THEN Undef ELSE Str(text)

\* the own properties that are present (JSON.parse yields no undefined
\* property)
PresentMems(mems) == SelectSeq(mems, LAMBDA m : m.e[1].t # "undef")

\* JSON.parse of a component. Shape "plain" lists the identity fields first
\* and names the reference id "bom-ref"; shape "alt" lists the fields in the
\* opposite order, names the reference id bomRef and carries a description.
ParseComponent(c) ==
  IF c.shape = "plain"
  THEN Obj(PresentMems(<<Mem("bom-ref", OptStr(c.ref)), Mem("name", OptStr(c.name)),
                         Mem("version", OptStr(c.version)),
                         Mem("purl", OptStr(c.purl)),
                         Mem("group", OptStr(c.group)),
                         Mem("externalReferences",
                             ParseExternalReferences(c.refs))>>))
  ELSE Obj(PresentMems(<<Mem("description", Str("d")),
                         Mem("externalReferences",
                             ParseExternalReferences(c.refs)),
                         Mem("group", OptStr(c.group)),
                         Mem("purl", OptStr(c.purl)),
                         Mem("version", OptStr(c.version)),
                         Mem("name", OptStr(c.name)),
                         Mem("bomRef", OptStr(c.ref))>>))

\* JSON.parse of an in-document vulnerability record: it affects reference
\* id v.ref with one rating of severity v.severity; v.alt gives the same
\* record with its keys in another order
ParseVulnerability(v) ==
  IF v.alt
  THEN Obj(<<Mem("ratings", Arr(<<Obj(<<Mem("severity", Str(v.severity))>>)>>)),
             Mem("affects", Arr(<<Obj(<<Mem("ref", Str(v.ref))>>)>>)),
             Mem("id", Str(v.id))>>)
  ELSE Obj(<<Mem("id", Str(v.id)),
             Mem("affects", Arr(<<Obj(<<Mem("ref", Str(v.ref))>>)>>)),
             Mem("ratings", Arr(<<Obj(<<Mem("severity", Str(v.severity))>>)>>))>>)

\* json.vulnerabilities || []
ParseVulnerabilities(vs) == [i \in 1..Len(vs) |-> ParseVulnerability(vs[i])]

VulnHigh == [id |-> "V1", ref |-> "r1", severity |-> "HIGH", alt |-> FALSE]
VulnHighAlt == [id |-> "V1", ref |-> "r1", severity |-> "HIGH", alt |-> TRUE]
VulnLow == [id |-> "V1", ref |-> "r1", severity |-> "LOW", alt |-> FALSE]
VulnOther == [id |-> "V2", ref |-> "r2", severity |-> "HIGH", alt |-> FALSE]

\* ------------------------------------------------------------------------
\* Field equality of parsed values (key order of objects ignored)
\* ------------------------------------------------------------------------

\* the value with the own properties of every object in it put in key order
RECURSIVE Canonical(_)
Canonical(v) ==
  CASE v.t = "arr" -> Arr([i \in 1..Len(v.e) |-> Canonical(v.e[i])])
    [] v.t = "obj" ->
         LET keys == SortStrings(ObjectKeys(v))
         IN Obj([i \in 1..Len(keys) |-> Mem(keys[i], Canonical(Get(v, keys[i])))])
    [] OTHER -> v

\* a and b have the same fields with the same values
FieldEqual(a, b) == Canonical(a) = Canonical(b)

\* the fields of a component the enrichment result depends on
RelevantFields == {"name", "version", "purl", "group", "externalReferences"}

\* the relevant fields of a component and its affecting vulnerability records
RelevantData(c, v) ==
  [name |-> Canonical(Get(c, "name")),
   version |-> Canonical(Get(c, "version")),
   purl |-> Canonical(Get(c, "purl")),
   group |-> Canonical(Get(c, "group")),
   externalReferences |-> Canonical(Get(c, "externalReferences")),
   vulnerabilities |-> Canonical(Arr(AffectingVulnerabilities(c, v)))]

\* ------------------------------------------------------------------------
\* Specification SpecFp: generateComponentChecksum on two components
\* ------------------------------------------------------------------------

FpComponents ==
  [name : {"a", "b"}, version : {"1", "2"}, purl : {"", "pkg:npm/a"},
   group : {"", "g"}, refs : {"r1", "r1k", "r2"}, ref : {"r1"},
   shape : {"plain", "alt"}]

FpVulnerabilityLists ==
  {<<>>, <<VulnHigh>>, <<VulnLow>>, <<VulnOther, VulnHighAlt>>}

\* componentDataString, generateComponentChecksum and the relevant data on
\* every input; "@@ <<>>" makes each a table that is computed once
FpStringOf ==
  [c \in FpComponents, v \in FpVulnerabilityLists |->
     componentDataString(ParseComponent(c), ParseVulnerabilities(v))] @@ <<>>

FpChecksumOf ==
  [c \in FpComponents, v \in FpVulnerabilityLists |->
     generateComponentChecksum(ParseComponent(c), ParseVulnerabilities(v))] @@ <<>>

FpRelevantOf ==
  [c \in FpComponents, v \in FpVulnerabilityLists |->
     RelevantData(ParseComponent(c), ParseVulnerabilities(v))] @@ <<>>

\* the relevant fields, of the component or of its affecting vulnerability
\* records, in which (a, va) and (b, vb) differ
DifferingFields(a, va, b, vb) ==
  LET ra == FpRelevantOf[a, va]
      rb == FpRelevantOf[b, vb]
  IN {f \in RelevantFields \cup {"vulnerabilities"} : ra[f] # rb[f]}

InitFp ==
  /\ fpIn \in [a : FpComponents, va : FpVulnerabilityLists,
               b : FpComponents, vb : FpVulnerabilityLists]
  /\ fpOut = <<>>
  /\ ServicesConstructed

ComputeComponentChecksums ==
  /\ fpOut = <<>>
  /\ fpOut' = [sa |-> FpStringOf[fpIn.a, fpIn.va],
               sb |-> FpStringOf[fpIn.b, fpIn.vb],
               ka |-> FpChecksumOf[fpIn.a, fpIn.va],
               kb |-> FpChecksumOf[fpIn.b, fpIn.vb]]
  /\ UNCHANGED <<fpIn, serviceVars>>

NextFp == ComputeComponentChecksums

SpecFp == InitFp /\ [][NextFp]_vars

\* C4: two components whose relevant fields and affecting vulnerability
\* records are field-equal, under the same document vulnerability list, get
\* the same checksum, whatever the order of their keys and whatever other
\* fields they carry.
C4_Determinism ==
  (/\ fpOut # <<>>
   /\ fpIn.va = fpIn.vb
   /\ DifferingFields(fpIn.a, fpIn.va, fpIn.b, fpIn.vb) = {})
    => fpOut.ka = fpOut.kb

\* two components that are field-equal in every relevant field and differ as
\* parsed values (key order, reference-id key, an extra field, the key order
\* inside an external reference) were hashed
C4_Witness ==
  /\ fpOut # <<>>
  /\ fpIn.va = fpIn.vb
  /\ fpIn.va # <<>>
  /\ DifferingFields(fpIn.a, fpIn.va, fpIn.b, fpIn.vb) = {}
  /\ fpIn.a.shape # fpIn.b.shape
  /\ fpIn.a.refs # fpIn.b.refs
  /\ fpOut.ka = fpOut.kb

\* C5: two components that differ in exactly one relevant field (name,
\* version, purl, group, the content of an external reference, or a rating of
\* an affecting vulnerability record) have different canonical
\* serializations.
C5_Sensitivity ==
  (/\ fpOut # <<>>
   /\ Cardinality(DifferingFields(fpIn.a, fpIn.va, fpIn.b, fpIn.vb)) = 1)
    => fpOut.sa # fpOut.sb

\* ------------------------------------------------------------------------
\* Specification SpecFileFp: generateFileChecksum on two documents
\* ------------------------------------------------------------------------

DocComponentChoices ==
  {[name |-> "a", version |-> "1", purl |-> "pkg:npm/a", group |-> "",
    refs |-> "r1", ref |-> "r1", shape |-> "plain"],
   [name |-> "b", version |-> "1", purl |-> "pkg:npm/b", group |-> "",
    refs |-> "r1", ref |-> "r2", shape |-> "plain"],
   [name |-> "a", version |-> "2", purl |-> "pkg:npm/a", group |-> "g",
    refs |-> "r2", ref |-> "r1", shape |-> "alt"]}

\* JSON.parse of an uploaded CycloneDX document; d.vulnerabilities is a list
\* of records when d.hasVulnerabilities, and the key is absent otherwise;
\* d.timestamp = "" stands for a document without metadata
ParseDocument(d) ==
  Obj(PresentMems(
    <<Mem("bomFormat", Str("CycloneDX")),
      Mem("metadata",
          IF d.timestamp = "" THEN Undef
          ELSE Obj(<<Mem("timestamp", Str(d.timestamp)),
                     Mem("version", Num("1"))>>)),
      Mem("components",
          Arr([i \in 1..Len(d.components) |-> ParseComponent(d.components[i])])),
      Mem("vulnerabilities",
          IF d.hasVulnerabilities THEN Arr(ParseVulnerabilities(d.vulnerabilities))
          ELSE Undef)>>))

FileDocs ==
  {[components |-> cs, hasVulnerabilities |-> vs # <<>>, vulnerabilities |-> vs,
    timestamp |-> ts] :
     cs \in UNION {[1..n -> DocComponentChoices] : n \in 1..MaxDocComponents},
     vs \in {<<>>, <<VulnHigh>>, <<VulnLow>>},
     ts \in {"", "t1", "t2"}}

FileStringOf == [d \in FileDocs |-> fileDataString(ParseDocument(d))] @@ <<>>

FileChecksumOf ==
  [d \in FileDocs |-> generateFileChecksum(ParseDocument(d))] @@ <<>>

FileDataOf ==
  [d \in FileDocs |-> Canonical(fileData(ParseDocument(d)))] @@ <<>>

InitFileFp ==
  /\ fpIn \in [a : FileDocs, b : FileDocs]
  /\ fpOut = <<>>
  /\ ServicesConstructed

ComputeFileChecksums ==
  /\ fpOut = <<>>
  /\ fpOut' = [sa |-> FileStringOf[fpIn.a], sb |-> FileStringOf[fpIn.b],
               ka |-> FileChecksumOf[fpIn.a], kb |-> FileChecksumOf[fpIn.b]]
  /\ UNCHANGED <<fpIn, serviceVars>>

NextFileFp == ComputeFileChecksums

SpecFileFp == InitFileFp /\ [][NextFileFp]_vars

\* C6: two documents that differ in a selected field (a component's name,
\* version, purl, group, externalReferences or reference id, a vulnerability
\* record, the metadata timestamp or version) have different canonical
\* serializations.
C6_FileSensitivity ==
  (fpOut # <<>> /\ FileDataOf[fpIn.a] # FileDataOf[fpIn.b])
    => fpOut.sa # fpOut.sb

\* ------------------------------------------------------------------------
\* The cache under arbitrary calls
\* ------------------------------------------------------------------------

MaxTime == 2

CacheKeys == {"k1", "k2"}
CacheValues == {Str("v1"), Str("v2")}
TTLValues == {Str("v1")}
TTLs == {0, 1}

InitCache == FpIdle /\ ServicesConstructed

CallSet(key, value) ==
  /\ set(key, value)
  /\ ev' = [op |-> "set", key |-> key, value |-> value, prev |-> get(key)]
  /\ UNCHANGED <<fpVars, resolveVars, docVars>>

CallGet(key) ==
  /\ ev' = [op |-> "get", key |-> key, ret |-> get(key)]
  /\ UNCHANGED <<fpVars, resolveVars, docVars, cacheVars>>

CallHas(key) ==
  /\ ev' = [op |-> "has", key |-> key, ret |-> has(key)]
  /\ UNCHANGED <<fpVars, resolveVars, docVars, cacheVars>>

CallSetWithTTL(key, value, ttlMs) ==
  /\ setWithTTL(key, value, ttlMs)
  /\ ev' = [op |-> "setWithTTL", key |-> key, value |-> value]
  /\ UNCHANGED <<fpVars, resolveVars, docVars>>

CallGetWithTTL(key) ==
  /\ ev' = [op |-> "getWithTTL", key |-> key, ret |-> getWithTTLResult(key)]
  /\ getWithTTL(key)
  /\ UNCHANGED <<fpVars, resolveVars, docVars>>

CallClear ==
  /\ clear
  /\ ev' = [op |-> "clear"]
  /\ degraded' = {}
  /\ completed' = {}
  /\ UNCHANGED <<fpVars, sources, tasks, runs, components, fetchProgress, sbom,
                 notification>>

\* time passes
Tick ==
  /\ now < MaxTime
  /\ now' = now + 1
  /\ UNCHANGED <<fpVars, resolveVars, docVars, cache, sessionStartTime, storage, storageWritable, ev,
                 lastSet>>

\* localStorage starts or stops accepting writes
StorageFault ==
  /\ storageWritable' = ~storageWritable
  /\ UNCHANGED <<fpVars, resolveVars, docVars, cache, sessionStartTime, storage, now, ev, lastSet>>

NextCache ==
  \/ \E key \in CacheKeys, value \in CacheValues : CallSet(key, value)
  \/ \E key \in CacheKeys : CallGet(key)
  \/ \E key \in CacheKeys : CallHas(key)
  \/ \E key \in CacheKeys, value \in TTLValues, ttlMs \in TTLs :
        CallSetWithTTL(key, value, ttlMs)
  \/ \E key \in CacheKeys : CallGetWithTTL(key)
  \/ CallClear
  \/ Tick
  \/ StorageFault

SpecCache == InitCache /\ [][NextCache]_vars

\* C1: right after set(k, v), get(k) returns v and has(k) is true; and a
\* get(k) or has(k) answers with the value of the latest set(k, .) for as long
\* as no clear() and no other write to k came after it, whatever was written
\* under other keys meanwhile.
C1_LastWriteWins ==
  /\ ev.op = "set" => (get(ev.key) = ev.value /\ has(ev.key))
  /\ (ev.op = "get" /\ MapHas(lastSet, ev.key)) => ev.ret = lastSet[ev.key]
  /\ (ev.op = "has" /\ MapHas(lastSet, ev.key)) => ev.ret = TRUE

\* a key holding v1 is set to v2 while another key is cached too, and get and
\* has answer for v2
C1_Witness ==
  /\ ev.op = "set"
  /\ ev.prev = Str("v1")
  /\ ev.value = Str("v2")
  /\ \E other \in CacheKeys \ {ev.key} : has(other)
  /\ get(ev.key) = Str("v2")
  /\ has(ev.key)

\* ------------------------------------------------------------------------
\* Strings: case, search, split
\* ------------------------------------------------------------------------

UpperLetters == "ABCDEFGHIJKLMNOPQRSTUVWXYZ"
LowerLetters == "abcdefghijklmnopqrstuvwxyz"

\* the position of character ch in text, 0 when it is not there
IndexOfChar(text, ch) ==
  IF \E i \in 1..Len(text) : CharAt(text, i) = ch
  THEN CHOOSE i \in 1..Len(text) :
         CharAt(text, i) = ch /\ \A j \in 1..(i - 1) : CharAt(text, j) # ch
  ELSE 0

\* s.toLowerCase()
RECURSIVE toLowerCase(_)
toLowerCase(s) ==
  IF Len(s) = 0 THEN ""
  ELSE LET i == IndexOfChar(UpperLetters, CharAt(s, 1))
       IN (IF i = 0 THEN CharAt(s, 1) ELSE CharAt(LowerLetters, i))
            \o toLowerCase(Tail(s))

\* s.toUpperCase()
RECURSIVE toUpperCase(_)
toUpperCase(s) ==
  IF Len(s) = 0 THEN ""
  ELSE LET i == IndexOfChar(LowerLetters, CharAt(s, 1))
       IN (IF i = 0 THEN CharAt(s, 1) ELSE CharAt(UpperLetters, i))
            \o toUpperCase(Tail(s))

\* s.indexOf(sub) + 1: the first position where sub occurs in s, 0 if none
IndexOf(s, sub) ==
  LET starts == {i \in 1..(Len(s) - Len(sub) + 1) :
                   SubSeq(s, i, i + Len(sub) - 1) = sub}
  IN IF starts = {} THEN 0
     ELSE CHOOSE i \in starts : \A j \in starts : i <= j

\* s.startsWith(prefix)
startsWith(s, prefix) ==
  Len(s) >= Len(prefix) /\ SubSeq(s, 1, Len(prefix)) = prefix

\* s.includes(sub)
includes(s, sub) == IndexOf(s, sub) # 0

\* s.replace(pattern, replacement) with a string pattern: the first occurrence
replace(s, pattern, replacement) ==
  LET i == IndexOf(s, pattern)
  IN IF i = 0 THEN s
     ELSE SubSeq(s, 1, i - 1) \o replacement
            \o SubSeq(s, i + Len(pattern), Len(s))

\* s.split(sep) for a one-character separator
RECURSIVE split(_, _)
split(s, sep) ==
  LET i == IndexOfChar(s, sep)
  IN IF i = 0 THEN <<s>>
     ELSE <<SubSeq(s, 1, i - 1)>> \o split(SubSeq(s, i + 1, Len(s)), sep)

\* parts.slice(-2)
SliceLastTwo(parts) ==
  IF Len(parts) <= 2 THEN parts ELSE SubSeq(parts, Len(parts) - 1, Len(parts))

\* Number(text) for a text of decimal digits
RECURSIVE NatOfDigits(_)
NatOfDigits(text) ==
  IF Len(text) = 0 THEN 0
  ELSE NatOfDigits(SubSeq(text, 1, Len(text) - 1)) * 10
         + (IndexOfChar("0123456789", CharAt(text, Len(text))) - 1)

\* ------------------------------------------------------------------------
\* JavaScript values as the property mapper reads them
\* ------------------------------------------------------------------------

\* o?.k
OptGet(o, k) == IF o.t \in {"undef", "null"} THEN Undef ELSE Get(o, k)

\* Number(v || 0) for a value that is a number or absent
NumberOr0(v) == IF v.t = "num" THEN NatOfDigits(v.s) ELSE 0

\* String(v) in a template literal or String(): strings and numbers
StringOf(v) ==
  CASE v.t \in {"str", "num"} -> v.s
    [] v.t = "null" -> "null"
    [] v.t = "undef" -> "undefined"
    [] OTHER -> "[object Object]"

\* Array.isArray(v) && v.length > 0
NonEmptyArray(v) == v.t = "arr" /\ Len(v.e) > 0

\* ------------------------------------------------------------------------
\* PropertyMapperService: the derivation rules
\* ------------------------------------------------------------------------

NA == Str("NA")

\* determineUsageRestrictions(license)
determineUsageRestrictions(license) ==
  IF ~Truthy(license) THEN NA
  ELSE LET l == toLowerCase(StringOf(license))
       IN IF includes(l, "agpl")
          THEN Str("AGPL License - Strong copyleft restrictions")
          ELSE IF includes(l, "gpl")
          THEN Str("GPL License - Copyleft restrictions apply")
          ELSE IF includes(l, "mit") \/ includes(l, "apache")
          THEN Str("Permissive license - Minimal restrictions")
          ELSE NA

\* (githubData?.stars || 0) > 0
HasStars(githubData, least) == NumberOr0(OptGet(githubData, "stars")) > least

\* determineOrigin(packageData, githubData)
determineOrigin(packageData, githubData) ==
  IF HasStars(githubData, 0) THEN Str("Open-source")
  ELSE IF /\ Truthy(OptGet(packageData, "license"))
          /\ includes(toLowerCase(StringOf(OptGet(packageData, "license"))),
                      "proprietary")
       THEN Str("Proprietary")
       ELSE Str("Open-source")

\* determineSupplier(packageData, githubData)
determineSupplier(packageData, githubData) ==
  IF HasStars(githubData, 0) THEN Str("Open-source")
  ELSE IF Truthy(OptGet(packageData, "author")) THEN Str("Vendor")
       ELSE Str("Third-party")

\* an identifier synthesized from ecosystem and name before the purl is
\* looked at
generateUniqueIdentifierSynthesizedFirst(component, pkgInfo, supplier) ==
  LET purl == Get(component, "purl")
      purlParts == split(purl.s, "/")
      ecosystem == toLowerCase(StringOf(OptGet(pkgInfo, "ecosystem")))
      name == StringOf(OptGet(pkgInfo, "name"))
      version == IF Truthy(Get(component, "version"))
                 THEN "@" \o StringOf(Get(component, "version")) ELSE ""
  IN IF Truthy(OptGet(pkgInfo, "ecosystem")) /\ Truthy(OptGet(pkgInfo, "name"))
     THEN IF ecosystem = "maven" /\ Truthy(OptGet(pkgInfo, "group"))
          THEN Str("pkg:supplier/" \o supplier.s \o "/" \o ecosystem \o "/"
                     \o StringOf(OptGet(pkgInfo, "group")) \o "/" \o name
                     \o version)
          ELSE Str("pkg:supplier/" \o supplier.s \o "/" \o ecosystem \o "/"
                     \o name \o version)
     ELSE IF Truthy(purl) /\ Len(purlParts) >= 2
     THEN Str("pkg:supplier/" \o supplier.s \o "/"
                \o replace(purlParts[1], "pkg:", "") \o "/"
                \o purlParts[Len(purlParts)])
     ELSE OrElse(Get(component, "name"), NA)

\* generateUniqueIdentifier(component, pkgInfo, supplier); the purl of a
\* component is a string or absent
generateUniqueIdentifier(component, pkgInfo, supplier) ==
  LET purl == Get(component, "purl")
      purlParts == split(purl.s, "/")
      ecosystem == toLowerCase(StringOf(OptGet(pkgInfo, "ecosystem")))
      name == StringOf(OptGet(pkgInfo, "name"))
      version == IF Truthy(Get(component, "version"))
                 THEN "@" \o StringOf(Get(component, "version")) ELSE ""
  IN IF Truthy(purl) /\ Len(purlParts) >= 2
     THEN Str("pkg:supplier/" \o supplier.s \o "/"
                \o replace(purlParts[1], "pkg:", "") \o "/"
                \o purlParts[Len(purlParts)])
     ELSE IF Truthy(OptGet(pkgInfo, "ecosystem")) /\ Truthy(OptGet(pkgInfo, "name"))
     THEN IF ecosystem = "maven" /\ Truthy(OptGet(pkgInfo, "group"))
          THEN Str("pkg:supplier/" \o supplier.s \o "/" \o ecosystem \o "/"
                     \o StringOf(OptGet(pkgInfo, "group")) \o "/" \o name
                     \o version)
          ELSE Str("pkg:supplier/" \o supplier.s \o "/" \o ecosystem \o "/"
                     \o name \o version)
     ELSE OrElse(Get(component, "name"), NA)

\* buildComments(packageData, vulnData, githubData)
buildComments(packageData, vulnData, githubData) ==
  LET notes ==
        (IF Truthy(OptGet(packageData, "description"))
         THEN <<"Description: " \o StringOf(OptGet(packageData, "description"))>>
         ELSE <<>>)
        \o (IF NumberOr0(OptGet(vulnData, "totalVulns")) > 0
            THEN <<StringOf(OptGet(vulnData, "totalVulns"))
                     \o " known vulnerabilities">>
            ELSE <<>>)
        \o (IF HasStars(githubData, 100)
            THEN <<"Popular project (" \o StringOf(OptGet(githubData, "stars"))
                     \o " stars)">>
            ELSE <<>>)
  IN IF Len(notes) > 0 THEN Str(Join(notes, "; ")) ELSE NA

\* a patch status that names the last fixed version
computePatchStatusLastFixed(vulnData, pkgInfo, pkgData) ==
  LET fixedVersions == OptGet(vulnData, "fixedVersions")
      latestVersion == OptGet(pkgData, "latestVersion")
      version == OptGet(pkgInfo, "version")
  IN IF Truthy(OptGet(vulnData, "hasVulnerabilities"))
     THEN IF NonEmptyArray(fixedVersions)
          THEN Str("Update available (>= "
                     \o StringOf(fixedVersions.e[Len(fixedVersions.e)]) \o ")")
          ELSE Str("Update available (>= NA)")
     ELSE IF /\ Truthy(latestVersion)
             /\ Truthy(version)
             /\ ~StrictEq(latestVersion, version)
          THEN Str("Update available (latest " \o StringOf(latestVersion) \o ")")
          ELSE Str("Up to date")

\* computePatchStatus(vulnData, pkgInfo, pkgData)
computePatchStatus(vulnData, pkgInfo, pkgData) ==
  LET fixedVersions == OptGet(vulnData, "fixedVersions")
      latestVersion == OptGet(pkgData, "latestVersion")
      version == OptGet(pkgInfo, "version")
  IN IF Truthy(OptGet(vulnData, "hasVulnerabilities"))
     THEN IF NonEmptyArray(fixedVersions)
          THEN Str("Update available (>= " \o StringOf(fixedVersions.e[1]) \o ")")
          ELSE Str("Update available (>= NA)")
     ELSE IF /\ Truthy(latestVersion)
             /\ Truthy(version)
             /\ ~StrictEq(latestVersion, version)
          THEN Str("Update available (latest " \o StringOf(latestVersion) \o ")")
          ELSE Str("Up to date")

\* bands whose limits belong to the band below
determineCriticalityFromOsvAbove(vulnData) ==
  LET score == NumberOr0(OptGet(vulnData, "maxCvssScore"))
  IN IF score > 9 THEN Str("Critical")
     ELSE IF score > 7 THEN Str("High")
     ELSE IF score > 4 THEN Str("Medium")
     ELSE IF score > 0 THEN Str("Low")
     ELSE Null

\* determineCriticalityFromOsv(vulnData)
determineCriticalityFromOsv(vulnData) ==
  LET score == NumberOr0(OptGet(vulnData, "maxCvssScore"))
  IN IF score >= 9 THEN Str("Critical")
     ELSE IF score >= 7 THEN Str("High")
     ELSE IF score >= 4 THEN Str("Medium")
     ELSE IF score > 0 THEN Str("Low")
     ELSE Null

\* const order = ["CRITICAL", "HIGH", "MEDIUM", "LOW"]
SeverityOrder == <<"CRITICAL", "HIGH", "MEDIUM", "LOW">>

\* order.indexOf(text): -1 when text is not in the list
OrderIndexOf(text) ==
  IF \E i \in 1..Len(SeverityOrder) : SeverityOrder[i] = text
  THEN (CHOOSE i \in 1..Len(SeverityOrder) : SeverityOrder[i] = text) - 1
  ELSE -1

\* v.ratings.map(r => (r.severity || "").toUpperCase())
RatingSeverities(ratings) ==
  [i \in 1..Len(ratings.e) |->
     toUpperCase(StringOf(OrElse(OptGet(ratings.e[i], "severity"), Str(""))))]

\* sev.sort((a, b) => order.indexOf(a) - order.indexOf(b))[0] || null: the sort
\* is stable, so the first element of the least index comes first; the empty
\* text is falsy and yields null (written "" here)
HighestSeverity(sev) ==
  LET first == CHOOSE i \in 1..Len(sev) :
                 /\ \A j \in 1..Len(sev) : OrderIndexOf(sev[i]) <= OrderIndexOf(sev[j])
                 /\ \A j \in 1..(i - 1) : OrderIndexOf(sev[j]) # OrderIndexOf(sev[i])
  IN sev[first]

\* a.ref && ref && a.ref === ref for some a of v.affects
AffectsThis(affects, ref) ==
  \E i \in 1..Len(affects.e) :
    /\ Truthy(OptGet(affects.e[i], "ref"))
    /\ Truthy(ref)
    /\ StrictEq(OptGet(affects.e[i], "ref"), ref)

\* the loop of determineCriticalityFromSbom from record i on; max is "" for null
RECURSIVE MaxSeverityFrom(_, _, _, _)
MaxSeverityFrom(sbomVulns, ref, i, max) ==
  IF i > Len(sbomVulns) THEN max
  ELSE LET v == sbomVulns[i]
           affects == Get(v, "affects")
           ratings == Get(v, "ratings")
           skip == \/ affects.t # "arr"
                   \/ ~NonEmptyArray(ratings)
                   \/ ~AffectsThis(affects, ref)
           highest == HighestSeverity(RatingSeverities(ratings))
           next == IF skip \/ highest = "" THEN max
                   ELSE IF max = "" \/ OrderIndexOf(highest) < OrderIndexOf(max)
                        THEN highest ELSE max
       IN MaxSeverityFrom(sbomVulns, ref, i + 1, next)

\* determineCriticalityFromSbom(sbomVulns, component)
determineCriticalityFromSbom(sbomVulns, component) ==
  LET ref == OrElse(OrElse(Get(component, "bom-ref"), Get(component, "bomRef")),
                    Null)
      max == MaxSeverityFrom(sbomVulns, ref, 1, "")
  IN IF Len(sbomVulns) = 0 \/ max = "" THEN Null
     ELSE Str(SubSeq(max, 1, 1) \o toLowerCase(SubSeq(max, 2, Len(max))))

\* ------------------------------------------------------------------------
\* The collaborators of the property mapper
\* ------------------------------------------------------------------------

\* PackageRegistryService.extractPackageInfo(component): the ecosystem is the
\* type of the component's package-url
extractPackageInfo(component) ==
  LET purl == StringOf(OrElse(Get(component, "purl"), Str("")))
      ecosystem == IF startsWith(purl, "pkg:npm/") THEN "npm"
                   ELSE IF startsWith(purl, "pkg:pypi/") THEN "pypi"
                   ELSE IF startsWith(purl, "pkg:maven/") THEN "maven"
                   ELSE "unknown"
  IN Obj(PresentMems(<<Mem("ecosystem", Str(ecosystem)),
                       Mem("name", Get(component, "name")),
                       Mem("group", Get(component, "group")),
                       Mem("version", Get(component, "version"))>>))

\* VulnerabilityService.determineCriticality(vulnData): the source's own
\* categorical rating, else null
determineCriticality(vulnData) ==
  OrElse(OptGet(vulnData, "categoricalSeverity"), Null)

\* const repoUrl = (component.externalReferences || []).find((r) =>
\*   r.type === "vcs" || r.type === "repository")?.url || null
RepoUrlOf(component) ==
  LET refs == OrElse(Get(component, "externalReferences"), Arr(<<>>))
      hits == {i \in 1..Len(refs.e) :
                 \/ StrictEq(Get(refs.e[i], "type"), Str("vcs"))
                 \/ StrictEq(Get(refs.e[i], "type"), Str("repository"))}
  IN IF hits = {} THEN Null
     ELSE OrElse(Get(refs.e[CHOOSE i \in hits : \A j \in hits : i <= j], "url"),
                 Null)

\* LifecycleService.fetchEol(component, pkgInfo): a local table lookup by
\* package name; a date text, or null for a package the table does not list
fetchEol(component, pkgInfo) ==
  IF StrictEq(OptGet(pkgInfo, "name"), Str("a")) THEN Str("2030-01-01") ELSE Null

\* ------------------------------------------------------------------------
\* PropertyMapperService: dependency keys and the two ways to a PropertySet
\* ------------------------------------------------------------------------

Ecosystem(pkgInfo) == OptGet(pkgInfo, "ecosystem")

\* the package-metadata key, "" for null (no key)
PkgKeyOf(pkgInfo) ==
  IF StrictEq(Ecosystem(pkgInfo), Str("npm"))
  THEN generateKey("npm", <<StringOf(Get(pkgInfo, "name"))>>)
  ELSE IF StrictEq(Ecosystem(pkgInfo), Str("pypi"))
  THEN generateKey("pypi", <<StringOf(Get(pkgInfo, "name"))>>)
  ELSE IF StrictEq(Ecosystem(pkgInfo), Str("maven"))
  THEN generateKey("maven", <<StringOf(Get(pkgInfo, "group")),
                              StringOf(Get(pkgInfo, "name"))>>)
  ELSE ""

VulnKeyOf(pkgInfo) ==
  generateKey("vuln", <<StringOf(Get(pkgInfo, "ecosystem")),
                        StringOf(Get(pkgInfo, "name"))>>)

\* the repository key, "" for null (no repository URL)
GhKeyOf(repoUrl) ==
  IF Truthy(repoUrl)
  THEN generateKey("github", <<Join(SliceLastTwo(split(repoUrl.s, "/")), "/")>>)
  ELSE ""

\* the three dependency keys of isAllDataCached and
\* buildPropertiesFromCachedData
DependencyKeys(pkgInfo, repoUrl) ==
  [pkg |-> PkgKeyOf(pkgInfo), vuln |-> VulnKeyOf(pkgInfo), gh |-> GhKeyOf(repoUrl)]

\* isAllDataCached(component, pkgInfo, repoUrl) against the Map m
isAllDataCached(m, pkgInfo, keys) ==
  IF ~Truthy(pkgInfo) \/ StrictEq(Ecosystem(pkgInfo), Str("unknown")) THEN TRUE
  ELSE /\ (keys.pkg = "" \/ MapHas(m, keys.pkg))
       /\ (keys.vuln = "" \/ MapHas(m, keys.vuln))
       /\ (keys.gh = "" \/ MapHas(m, keys.gh))

\* the recommendation note appended to Comments or Notes
WithRecommendation(comments, patchStatus, vulnData) ==
  LET fixedVersions == OptGet(vulnData, "fixedVersions")
      recommendationText ==
        IF NonEmptyArray(fixedVersions)
        THEN "Recommended version: " \o StringOf(fixedVersions.e[1])
        ELSE IF patchStatus = Str("Update available")
             THEN "Recommended version: NA"
             ELSE ""
  IN IF recommendationText = "" THEN comments
     ELSE IF comments = NA THEN Str(recommendationText)
          ELSE Str(comments.s \o "; " \o recommendationText)

\* a PropertySet from its twelve values
PropertySet(patch, release, eol, criticality, usage, comments, executable, archive, structured, identifier, supplier, origin) ==
  ("Patch Status" :> patch) @@ ("Release Date" :> release)
    @@ ("End-of-Life Date" :> eol) @@ ("Criticality" :> criticality)
    @@ ("Usage Restrictions" :> usage) @@ ("Comments or Notes" :> comments)
    @@ ("Executable Property" :> executable) @@ ("Archive Property" :> archive)
    @@ ("Structured Property" :> structured)
    @@ ("Unique Identifier" :> identifier) @@ ("Component Supplier" :> supplier)
    @@ ("Component Origin" :> origin)

\* the merge of fetchComponentData after the joint await (lines 470-501)
MergeFetched(component, pkgInfo, sbomVulnerabilities, pkgData, vulnData, ghData, eolDate) ==
  LET patch == computePatchStatus(vulnData, pkgInfo, pkgData)
      supplier == determineSupplier(pkgData, ghData)
  IN PropertySet(
       patch,
       OrElse(OrElse(OptGet(pkgData, "releaseDate"), OptGet(ghData, "releaseDate")),
              NA),
       OrElse(eolDate, NA),
       OrElse(OrElse(determineCriticalityFromSbom(sbomVulnerabilities, component),
                     determineCriticalityFromOsv(vulnData)),
              determineCriticality(vulnData)),
       determineUsageRestrictions(
         OrElse(OrElse(OptGet(pkgData, "license"), OptGet(ghData, "license")),
                Null)),
       WithRecommendation(buildComments(pkgData, vulnData, ghData), patch, vulnData),
       IF StrictEq(Ecosystem(pkgInfo), Str("npm")) THEN Str("Yes") ELSE Str("No"),
       Str("No"),
       Str("Yes"),
       generateUniqueIdentifier(component, pkgInfo, supplier),
       supplier,
       determineOrigin(pkgData, ghData))

\* the package metadata the cached path reads (lines 316-322)
CachedPkgData(m, keys) == IF keys.pkg # "" THEN MapGet(m, keys.pkg) ELSE Null

\* the vulnerability aggregate the cached path reads (line 324)
CachedVulnData(m, keys) == MapGet(m, keys.vuln)

\* a cached path that would not read the repository metadata
CachedGhDataUnread(m, keys) == Null

\* the repository metadata the cached path reads (line 325)
CachedGhData(m, keys) == IF keys.gh # "" THEN MapGet(m, keys.gh) ELSE Null

\* buildPropertiesFromCachedData from the cached data on (lines 326-362)
BuildFromCached(component, pkgInfo, sbomVulnerabilities, pkgData, vulnData, ghData) ==
  LET eolDate == fetchEol(component, pkgInfo)
      patchStatus == computePatchStatus(vulnData, pkgInfo, pkgData)
      releaseDate == OrElse(OrElse(OptGet(pkgData, "releaseDate"),
                                   OptGet(ghData, "releaseDate")), NA)
      criticalityFromSbom == determineCriticalityFromSbom(sbomVulnerabilities,
                                                          component)
      resolvedCriticality ==
        OrElse(OrElse(criticalityFromSbom, determineCriticalityFromOsv(vulnData)),
               determineCriticality(vulnData))
      license == OrElse(OrElse(OptGet(pkgData, "license"), OptGet(ghData, "license")),
                        Null)
      componentSupplier == determineSupplier(pkgData, ghData)
  IN PropertySet(
       patchStatus,
       releaseDate,
       OrElse(eolDate, NA),
       resolvedCriticality,
       determineUsageRestrictions(license),
       WithRecommendation(buildComments(pkgData, vulnData, ghData), patchStatus,
                          vulnData),
       IF StrictEq(Ecosystem(pkgInfo), Str("npm")) THEN Str("Yes") ELSE Str("No"),
       Str("No"),
       Str("Yes"),
       generateUniqueIdentifier(component, pkgInfo, componentSupplier),
       componentSupplier,
       determineOrigin(pkgData, ghData))

\* the minimal PropertySet of the catch block
errorProps(component) ==
  PropertySet(
    Str("Error fetching data"),
    NA,
    NA,
    Str("Unknown"),
    NA,
    Str("Error occurred while fetching component data"),
    Str("Unknown"),
    Str("No"),
    Str("Yes"),
    OrElse(OrElse(Get(component, "purl"), Get(component, "name")), NA),
    Str("Unknown"),
    Str("Unknown"))


\* ------------------------------------------------------------------------
\* Components and source data the resolutions run on
\* ------------------------------------------------------------------------

\* an npm package with a repository, the same component with its keys in
\* another order, and a component of unknown ecosystem with a repository
CompNpm ==
  [name |-> "a", version |-> "1", purl |-> "pkg:npm/a", group |-> "",
   refs |-> "r1", ref |-> "r1", shape |-> "plain"]
CompNpmAlt ==
  [name |-> "a", version |-> "1", purl |-> "pkg:npm/a", group |-> "",
   refs |-> "r1k", ref |-> "r1", shape |-> "alt"]
CompUnknown ==
  [name |-> "b", version |-> "1", purl |-> "", group |-> "",
   refs |-> "r1", ref |-> "r1", shape |-> "plain"]

MergeComponents == {CompNpm, CompNpmAlt, CompUnknown}
MergeVulnerabilityLists == {<<>>, <<VulnHigh>>}

PkgDataFull ==
  Obj(<<Mem("releaseDate", Str("2020-01-01")), Mem("license", Str("MIT")),
        Mem("latestVersion", Str("2")), Mem("author", Str("x")),
        Mem("description", Str("d"))>>)
PkgDataProprietary ==
  Obj(<<Mem("license", Str("Proprietary")), Mem("latestVersion", Str("1"))>>)
VulnDataFixed ==
  Obj(<<Mem("hasVulnerabilities", Bool(TRUE)), Mem("totalVulns", Num("2")),
        Mem("fixedVersions", Arr(<<Str("1.1")>>)), Mem("maxCvssScore", Num("8"))>>)
VulnDataUnfixed ==
  Obj(<<Mem("hasVulnerabilities", Bool(TRUE)), Mem("totalVulns", Num("1")),
        Mem("fixedVersions", Arr(<<>>)), Mem("maxCvssScore", Num("0")),
        Mem("categoricalSeverity", Str("Low"))>>)
VulnDataClean ==
  Obj(<<Mem("hasVulnerabilities", Bool(FALSE)), Mem("totalVulns", Num("0")),
        Mem("fixedVersions", Arr(<<>>)), Mem("maxCvssScore", Num("0"))>>)
GhDataPopular ==
  Obj(<<Mem("releaseDate", Str("2021-01-01")), Mem("license", Str("GPL-3.0")),
        Mem("stars", Num("150"))>>)
GhDataQuiet ==
  Obj(<<Mem("license", Str("Apache-2.0")), Mem("stars", Num("0"))>>)

\* what a source can hold for one lookup; null is a lookup without a match
PkgDataChoices == {Null, PkgDataFull, PkgDataProprietary}
VulnDataChoices == {Null, VulnDataFixed, VulnDataUnfixed, VulnDataClean}
GhDataChoices == {Null, GhDataPopular, GhDataQuiet}

\* per component: the parsed component, extractPackageInfo, the repository
\* URL, the dependency keys and the error PropertySet ("@@ <<>>" makes each
\* of these tables computed once)
InfoOf ==
  [c \in MergeComponents |->
     LET component == ParseComponent(c)
         pkgInfo == extractPackageInfo(component)
         repoUrl == RepoUrlOf(component)
     IN [component |-> component, pkgInfo |-> pkgInfo, repoUrl |-> repoUrl,
         keys |-> DependencyKeys(pkgInfo, repoUrl),
         errorProps |-> errorProps(component)]] @@ <<>>

\* BuildFromCached on every component, vulnerability list and cached data
BuildFromCachedOf ==
  [c \in MergeComponents, v \in MergeVulnerabilityLists,
   pkgData \in PkgDataChoices \cup {Undef}, vulnData \in VulnDataChoices \cup {Undef},
   ghData \in GhDataChoices \cup {Undef} |->
     BuildFromCached(ParseComponent(c), extractPackageInfo(ParseComponent(c)),
                     ParseVulnerabilities(v), pkgData, vulnData, ghData)] @@ <<>>

\* MergeFetched on every component, vulnerability list and fetched data
MergeFetchedOf ==
  [c \in MergeComponents, v \in MergeVulnerabilityLists,
   pkgData \in PkgDataChoices, vulnData \in VulnDataChoices,
   ghData \in GhDataChoices |->
     MergeFetched(ParseComponent(c), extractPackageInfo(ParseComponent(c)),
                  ParseVulnerabilities(v), pkgData, vulnData, ghData,
                  fetchEol(ParseComponent(c),
                           extractPackageInfo(ParseComponent(c))))] @@ <<>>

\* ------------------------------------------------------------------------
\* fetchComponentData as a state machine
\* ------------------------------------------------------------------------

\* the component fingerprint of an uploaded component and vulnerability list
ChecksumOf(c, v) == FpChecksumOf[c, v]

\* a whole-result check that would never find anything
hasComponentResultNever(m, c, v) == FALSE

hasComponentResult(m, c, v) == MapHas(m, ChecksumOf(c, v))

getComponentResult(m, c, v) == MapGet(m, ChecksumOf(c, v))

setComponentResult(m, c, v, result) == MapSet(m, ChecksumOf(c, v), result)

\* buildPropertiesFromCachedData(component, pkgInfo, repoUrl,
\* sbomVulnerabilities) against the Map m; keys are the dependency keys
buildPropertiesFromCachedData(m, c, v, keys) ==
  BuildFromCachedOf[c, v, CachedPkgData(m, keys), CachedVulnData(m, keys),
                    CachedGhData(m, keys)]

\* the collaborators the joint fetch calls for a component with these keys
CalledByFetch(keys) ==
  (IF keys.pkg # "" THEN {"pkg"} ELSE {}) \cup {"vuln", "gh", "eol"}

\* the synchronous path: the set built from the cached data is cached under
\* the whole-result fingerprint and returned
FastPath(m, c, v, props) ==
  [path |-> "fast", ret |-> props, cache |-> setComponentResult(m, c, v, props),
   called |-> {"eol"}]

\* fetchComponentData for a component whose package information, repository
\* URL and dependency keys are info
FetchStartFor(m, c, v, info) ==
  IF hasComponentResult(m, c, v)
  THEN [path |-> "hit", ret |-> getComponentResult(m, c, v), cache |-> m,
        called |-> {}]
  ELSE IF isAllDataCached(m, info.pkgInfo, info.keys)
  THEN FastPath(m, c, v, buildPropertiesFromCachedData(m, c, v, info.keys))
  ELSE [path |-> "fetch", ret |-> Undef, cache |-> m,
        called |-> CalledByFetch(info.keys)]

\* fetchComponentData(component, sbomVulnerabilities) up to its return or its
\* await, against the Map m: the path taken, the value returned, the Map
\* afterwards and the collaborators called
FetchStart(m, c, v) == FetchStartFor(m, c, v, InfoOf[c])

\* what one source call of a joint fetch comes to
Outcomes == {"value", "null", "reject"}

\* the package call is Promise.resolve(null) for an unknown ecosystem and the
\* repository client answers null to a null URL; neither can fail then
Applicable(keys) ==
  (IF keys.pkg # "" THEN {"pkg"} ELSE {})
    \cup {"vuln"}
    \cup (IF keys.gh # "" THEN {"gh"} ELSE {})

\* the value a source call resolves to
Fetched(keys, kind, outcome) ==
  IF kind \in Applicable(keys) /\ outcome[kind] = "value" THEN sources[kind] ELSE Null

\* Promise.all rejects as soon as one of the calls rejects
Rejects(keys, outcome) == \E kind \in Applicable(keys) : outcome[kind] = "reject"

\* the joint await and what follows it, for a component with information info
FetchEndFor(c, v, outcome, info) ==
  IF Rejects(info.keys, outcome)
  THEN [path |-> "error", ret |-> info.errorProps]
  ELSE [path |-> "merged",
        ret |-> MergeFetchedOf[c, v, Fetched(info.keys, "pkg", outcome),
                               Fetched(info.keys, "vuln", outcome),
                               Fetched(info.keys, "gh", outcome)]]

\* fetchComponentData from its await on: the merge, or the catch block
FetchEnd(c, v, outcome) == FetchEndFor(c, v, outcome, InfoOf[c])

\* the history of degraded results after a resolution of (c, v) ended on path
DegradedAfter(c, v, path, value) ==
  IF path = "error" THEN degraded \cup {[c |-> c, v |-> v, ret |-> value]}
  ELSE degraded

\* ------------------------------------------------------------------------
\* The upload handler of the App: the whole-document resolver
\* ------------------------------------------------------------------------

CERT_IN_PROPERTIES ==
  <<"Patch Status", "Release Date", "End-of-Life Date", "Criticality",
    "Usage Restrictions", "Comments or Notes", "Executable Property",
    "Archive Property", "Structured Property", "Unique Identifier",
    "Component Supplier", "Component Origin">>

\* the position of the first property called key in props, 0 when none is
findIndex(props, key) ==
  IF \E i \in DOMAIN props : props[i].name = key
  THEN CHOOSE i \in DOMAIN props :
         /\ props[i].name = key
         /\ \A j \in 1..(i - 1) : props[j].name # key
  ELSE 0

RECURSIVE AddMissingFrom(_, _)
\* CERT_IN_PROPERTIES.forEach from key i on: a missing property is pushed as NA
AddMissingFrom(props, i) ==
  IF i > Len(CERT_IN_PROPERTIES) THEN props
  ELSE AddMissingFrom(
         IF findIndex(props, CERT_IN_PROPERTIES[i]) = 0
         THEN Append(props, [name |-> CERT_IN_PROPERTIES[i], value |-> "NA"])
         ELSE props,
         i + 1)

\* component.properties ? [...component.properties] : []; a component
\* written without a property list has none
PropertiesOf(c) == IF "properties" \in DOMAIN c THEN c.properties ELSE <<>>

\* json.components with every CERT-In property present; an item is the
\* uploaded component together with its property list
updatedComponents(d) ==
  [i \in 1..Len(d.components) |->
     [component |-> d.components[i],
      properties |-> AddMissingFrom(PropertiesOf(d.components[i]), 1)]]

\* json.vulnerabilities || []
DocVulnerabilities(d) == IF d.hasVulnerabilities THEN d.vulnerabilities ELSE <<>>

RECURSIVE MergeFromUnfiltered(_, _, _)
\* a merge that writes every fetched value, NA and null included
MergeFromUnfiltered(newProps, fetched, i) ==
  IF i > Len(CERT_IN_PROPERTIES) THEN newProps
  ELSE LET key == CERT_IN_PROPERTIES[i]
           val == IF key \in DOMAIN fetched THEN fetched[key] ELSE Undef
           existingIdx == findIndex(newProps, key)
           prop == [name |-> key, value |-> StringOf(val)]
       IN MergeFromUnfiltered(
            IF key \in DOMAIN fetched
            THEN IF existingIdx >= 1
                 THEN [newProps EXCEPT ![existingIdx] = prop]
                 ELSE Append(newProps, prop)
            ELSE newProps,
            fetched, i + 1)

RECURSIVE MergeFrom(_, _, _)
\* the forEach of the merge from key i on: a fetched value that is truthy and
\* not "NA" replaces the property, or is pushed when the property is missing
MergeFrom(newProps, fetched, i) ==
  IF i > Len(CERT_IN_PROPERTIES) THEN newProps
  ELSE LET key == CERT_IN_PROPERTIES[i]
           val == IF key \in DOMAIN fetched THEN fetched[key] ELSE Undef
           existingIdx == findIndex(newProps, key)
           prop == [name |-> key, value |-> StringOf(val)]
       IN MergeFrom(
            IF Truthy(val) /\ val # Str("NA")
            THEN IF existingIdx >= 1
                 THEN [newProps EXCEPT ![existingIdx] = prop]
                 ELSE Append(newProps, prop)
            ELSE newProps,
            fetched, i + 1)

\* the merged list: each updated component with the fetched values merged in
MergeProperties(updated, results) ==
  [idx \in DOMAIN updated |->
     [component |-> updated[idx].component,
      properties |-> MergeFrom(updated[idx].properties, results[idx], 1)]]

\* the documents that are uploaded: one component written in two ways, a
\* different component, and two components
UploadDoc(cs) ==
  [components |-> cs, hasVulnerabilities |-> FALSE, vulnerabilities |-> <<>>,
   timestamp |-> "t1"]

DocNpm == UploadDoc(<<CompNpm>>)
DocNpmAlt == UploadDoc(<<CompNpmAlt>>)
DocUnknown == UploadDoc(<<CompUnknown>>)
DocBoth == UploadDoc(<<CompNpm, CompUnknown>>)
UploadDocs == {DocNpm, DocNpmAlt, DocUnknown, DocBoth}

\* documents with two components that both have to be fetched
DocPair == UploadDoc(<<CompNpm, CompNpmAlt>>)
DocPairSwapped == UploadDoc(<<CompNpmAlt, CompNpm>>)
OrderDocs == {DocPair, DocPairSwapped}

\* a document of one component that tells by its metadata that it is not
\* DocBoth
DocLater == [DocNpm EXCEPT !.timestamp = "t2"]
DisplayDocs == {DocBoth, DocLater}

\* generateFileChecksum and the relevant data of every uploaded document;
\* the fingerprint does not read the property lists
UploadChecksumOf ==
  [d \in UploadDocs \cup OrderDocs \cup DisplayDocs |->
     generateFileChecksum(ParseDocument(d))] @@ <<>>

UploadDataOf ==
  [d \in UploadDocs \cup OrderDocs \cup DisplayDocs |->
     Canonical(fileData(ParseDocument(d)))] @@ <<>>

hasFileResultNever(m, d) == FALSE

hasFileResult(m, d) == MapHas(m, UploadChecksumOf[d])

\* the cached value is the processed component list
getFileResult(m, d) == MapGet(m, UploadChecksumOf[d])

\* setFileResult(sbomData, processedComponents), key being the fingerprint
\* of sbomData
setFileResult(m, key, processedComponents) ==
  MapSet(m, key, [components |-> processedComponents])

RECURSIVE StartAll(_, _, _, _)
\* updatedComponents.map(fetchComponentData) from component i on, on cache
\* map m: each call runs up to its return or its first await, in order
StartAll(m, cs, v, i) ==
  IF i > Len(cs) THEN [cache |-> m, starts |-> <<>>]
  ELSE LET r == FetchStart(m, cs[i], v)
           rest == StartAll(r.cache, cs, v, i + 1)
       IN [cache |-> rest.cache, starts |-> <<r>> \o rest.starts]

\* the history of cached lists after a run on d cached list under key: an
\* entry stays intact until another list is written under its fingerprint
CompletedAfter(d, key, list) ==
  {[h EXCEPT !.intact = h.intact /\ (h.key = key => h.list = list)] :
     h \in completed}
    \cup {[doc |-> d, key |-> key, list |-> list, intact |-> TRUE]}

\* lastSet after the writes that lead from map m to map n
LastSetAfter(m, n) ==
  [k \in DOMAIN lastSet \cup {j \in DOMAIN n : j \notin DOMAIN m \/ n[j] # m[j]} |->
     IF k \in DOMAIN n /\ (k \notin DOMAIN m \/ n[k] # m[k]) THEN n[k]
     ELSE lastSet[k]]

MaxInFlight == 2
MaxRuns == 2

\* a direct call of fetchComponentData belongs to no run
NoRun == 0

\* a run whose list has been merged and cached
RunDone == [done |-> TRUE]

\* a call of fetchComponentData(c, v) that goes as r says
ResolveAs(c, v, r) ==
  /\ r.path = "fetch" => Len(tasks) < MaxInFlight
  /\ cache' = r.cache
  /\ IF r.path = "fast"
     THEN /\ saveToStorage(cache')
          /\ lastSet' = LastSetAfter(cache, cache')
          /\ degraded' = DegradedAfter(c, v, r.path, r.ret)
     ELSE UNCHANGED <<storage, lastSet, degraded>>
  /\ tasks' = IF r.path = "fetch"
              THEN Append(tasks, [c |-> c, v |-> v, run |-> NoRun, idx |-> 0])
              ELSE tasks
  /\ ev' = [op |-> "resolve", c |-> c, v |-> v, path |-> r.path,
            ret |-> r.ret, called |-> r.called]
  /\ UNCHANGED <<fpVars, sessionStartTime, storageWritable, now, sources, docVars>>

\* a call of fetchComponentData(c, v): it returns at once on a hit or when all
\* data is cached, and suspends at the joint await otherwise
Resolve(c, v) == ResolveAs(c, v, FetchStart(cache, c, v))

\* a settle that files the result of a run's call by its order of arrival
SettleAsArrivalOrder(i, t, outcome, key, r) ==
  LET stored == MapSet(cache, key, r.ret)
      run == runs[t.run]
      arrival == Len(run.results) - Cardinality(run.pending) + 1
      results == [run.results EXCEPT ![arrival] = r.ret]
      finished == t.run # NoRun /\ run.pending = {t.idx}
      merged == MergeProperties(updatedComponents(run.doc), results)
  IN /\ cache' = IF finished THEN setFileResult(stored, run.key, merged) ELSE stored
     /\ saveToStorage(cache')
     /\ lastSet' = LET written == LastSetAfter(cache, cache')
                   IN IF key \in DOMAIN written THEN written
                      ELSE MapSet(written, key, r.ret)
     /\ degraded' = DegradedAfter(t.c, t.v, r.path, r.ret)
     /\ tasks' = SubSeq(tasks, 1, i - 1) \o SubSeq(tasks, i + 1, Len(tasks))
     /\ runs' = IF t.run = NoRun THEN runs
                ELSE IF finished THEN [runs EXCEPT ![t.run] = RunDone]
                ELSE [runs EXCEPT ![t.run] =
                        [run EXCEPT !.results = results,
                                    !.pending = run.pending \ {t.idx}]]
     /\ components' = IF finished THEN merged ELSE components
     /\ completed' = IF finished
                     THEN CompletedAfter(run.doc, run.key, merged)
                     ELSE completed
     /\ ev' = [op |-> "settle", c |-> t.c, v |-> t.v, path |-> r.path, ret |-> r.ret,
               outcome |-> outcome, finished |-> finished]
     /\ UNCHANGED <<fpVars, sessionStartTime, storageWritable, now, sources>>

\* the suspended call t resumes with result r, which setComponentResult
\* caches under key, the fingerprint of its component; when it was the last
\* call its run waited for, the run merges, displays and caches its list
\* before anything else happens
SettleAs(i, t, outcome, key, r) ==
  LET stored == MapSet(cache, key, r.ret)
      run == runs[t.run]
      results == [run.results EXCEPT ![t.idx] = r.ret]
      finished == t.run # NoRun /\ run.pending = {t.idx}
      merged == MergeProperties(updatedComponents(run.doc), results)
  IN /\ cache' = IF finished THEN setFileResult(stored, run.key, merged) ELSE stored
     /\ saveToStorage(cache')
     /\ lastSet' = LET written == LastSetAfter(cache, cache')
                   IN IF key \in DOMAIN written THEN written
                      ELSE MapSet(written, key, r.ret)
     /\ degraded' = DegradedAfter(t.c, t.v, r.path, r.ret)
     /\ tasks' = SubSeq(tasks, 1, i - 1) \o SubSeq(tasks, i + 1, Len(tasks))
     /\ runs' = IF t.run = NoRun THEN runs
                ELSE IF finished THEN [runs EXCEPT ![t.run] = RunDone]
                ELSE [runs EXCEPT ![t.run] =
                        [run EXCEPT !.results = results,
                                    !.pending = run.pending \ {t.idx}]]
     /\ components' = IF finished THEN merged ELSE components
     /\ completed' = IF finished
                     THEN CompletedAfter(run.doc, run.key, merged)
                     ELSE completed
     /\ ev' = [op |-> "settle", c |-> t.c, v |-> t.v, path |-> r.path, ret |-> r.ret,
               outcome |-> outcome, finished |-> finished]
     /\ UNCHANGED <<fpVars, sessionStartTime, storageWritable, now, sources>>

\* the joint await of suspended call i completes with the given outcomes
SettleRun(i, outcome) ==
  /\ \A kind \in {"pkg", "vuln", "gh"} \ Applicable(InfoOf[tasks[i].c].keys) :
       outcome[kind] = "value"
  /\ SettleAs(i, tasks[i], outcome, ChecksumOf(tasks[i].c, tasks[i].v),
              FetchEnd(tasks[i].c, tasks[i].v, outcome))

\* the same with the progress display left aside; SettleShown follows it
Settle(i, outcome) ==
  SettleRun(i, outcome) /\ UNCHANGED <<fetchProgress, sbom, notification>>

\* a source client stores what it fetched under key
SourceCachedAt(key, kind) ==
  /\ key # ""
  /\ ~MapHas(cache, key)
  /\ set(key, sources[kind])
  /\ ev' = [op |-> "source", key |-> key]
  /\ UNCHANGED <<fpVars, resolveVars, docVars>>

\* a source client stores what it fetched for component c under its key
SourceCached(c, kind) == SourceCachedAt(InfoOf[c].keys[kind], kind)

\* the file cache holds the list cachedResult for d: it is displayed as it is
UploadHit(d, cachedResult) ==
  /\ components' = cachedResult
  /\ ev' = [op |-> "upload", doc |-> d, path |-> "hit", ret |-> cachedResult,
            started |-> 0, called |-> {}]
  /\ UNCHANGED <<fpVars, cacheVars, resolveVars, runs, completed>>

\* the file cache holds nothing under key, the fingerprint of d: the calls of
\* fetchComponentData have gone as st says, and the run merges and caches at
\* once when none of them had to suspend
UploadMiss(d, key, v, updated, st) ==
  LET pending == {i \in DOMAIN st.starts : st.starts[i].path = "fetch"}
      results == [i \in DOMAIN st.starts |-> st.starts[i].ret]
      merged == MergeProperties(updated, results)
      called == UNION {st.starts[i].called : i \in DOMAIN st.starts}
      run == Len(runs) + 1
  IN /\ Len(tasks) + Cardinality(pending) <= MaxInFlight
     /\ pending # {} => Len(runs) < MaxRuns
     /\ cache' = IF pending = {} THEN setFileResult(st.cache, key, merged)
                 ELSE st.cache
     /\ IF cache' # cache THEN saveToStorage(cache') ELSE UNCHANGED storage
     /\ lastSet' = LastSetAfter(cache, cache')
     /\ tasks' = tasks \o
                   [k \in 1..Cardinality(pending) |->
                      LET i == CHOOSE j \in pending :
                                 Cardinality({l \in pending : l < j}) = k - 1
                      IN [c |-> d.components[i], v |-> v, run |-> run, idx |-> i]]
     /\ runs' = IF pending = {} THEN runs
                ELSE Append(runs, [done |-> FALSE, doc |-> d, key |-> key,
                                   results |-> results, pending |-> pending])
     /\ components' = IF pending = {} THEN merged ELSE updated
     /\ completed' = IF pending = {} THEN CompletedAfter(d, key, merged)
                     ELSE completed
     /\ ev' = [op |-> "upload", doc |-> d,
               path |-> IF pending = {} THEN "completed" ELSE "pending",
               ret |-> components', started |-> Len(d.components),
               called |-> called]
     /\ UNCHANGED <<fpVars, sessionStartTime, storageWritable, now, sources,
                    degraded>>

\* reader.onload on document d with the background run up to its return or
\* its first suspension
UploadRun(d) ==
  IF hasFileResult(cache, d)
  THEN UploadHit(d, getFileResult(cache, d).components)
  ELSE UploadMiss(d, UploadChecksumOf[d], DocVulnerabilities(d),
                  updatedComponents(d),
                  StartAll(cache, d.components, DocVulnerabilities(d), 1))

\* the same with the progress display left aside; UploadShown follows it
Upload(d) == UploadRun(d) /\ UNCHANGED <<fetchProgress, sbom, notification>>

\* ------------------------------------------------------------------------
\* Component resolutions under arbitrary interleavings
\* ------------------------------------------------------------------------

ResolveComponents == {CompNpm, CompNpmAlt, CompUnknown}
ResolveVulnerabilityLists == {<<>>}

\* the outcomes of a joint fetch in which at most one call does not deliver
ResolveOutcomes ==
  {o \in [pkg : Outcomes, vuln : Outcomes, gh : Outcomes] :
     Cardinality({kind \in DOMAIN o : o[kind] # "value"}) <= 1}

InitResolve ==
  /\ FpIdle
  /\ CacheConstructed
  /\ ev = NoCall
  /\ sources = [pkg |-> PkgDataFull, vuln |-> VulnDataFixed, gh |-> GhDataPopular]
  /\ NothingUploaded

NextResolve ==
  \/ \E c \in ResolveComponents, v \in ResolveVulnerabilityLists : Resolve(c, v)
  \/ \E i \in 1..Len(tasks), outcome \in ResolveOutcomes : Settle(i, outcome)
  \/ \E c \in ResolveComponents, kind \in {"pkg", "vuln", "gh"} : SourceCached(c, kind)
  \/ CallClear

SpecResolve == InitResolve /\ [][NextResolve]_vars

\* the applicable dependency keys of component c: package metadata for a known
\* ecosystem, the vulnerability lookup, the repository lookup when the
\* component has a repository URL
ApplicableKeys(c) == {InfoOf[c].keys[kind] : kind \in Applicable(InfoOf[c].keys)}

\* C3: a fetchComponentData call on a component whose fingerprint has a cached
\* value returns exactly that value, calls no package, vulnerability,
\* repository or lifecycle source, and leaves the cache, its snapshot and the
\* suspended calls as they were.
C3_HitReturnsCached ==
  [][(ev'.op = "resolve" /\ MapHas(cache, ChecksumOf(ev'.c, ev'.v)))
       => /\ ev'.ret = cache[ChecksumOf(ev'.c, ev'.v)]
          /\ ev'.called = {}
          /\ cache' = cache
          /\ storage' = storage
          /\ tasks' = tasks]_vars

\* a call answered from a cached PropertySet while other calls are suspended
C3_Witness ==
  /\ ev.op = "resolve"
  /\ ev.path = "hit"
  /\ ev.ret = cache[ChecksumOf(ev.c, ev.v)]
  /\ ev.ret["Structured Property"] = Str("Yes")
  /\ Len(tasks) > 0

\* C8: after a whole-result miss the call resolves from the cache alone only
\* when every applicable dependency key is cached; when one is missing, the
\* repository key of a component of unknown ecosystem included, the external
\* calls are issued.
C8_FastPathOnlyWhenCached ==
  [][(ev'.op = "resolve" /\ ~MapHas(cache, ChecksumOf(ev'.c, ev'.v)))
       => /\ ev'.path = "fast" => \A key \in ApplicableKeys(ev'.c) : MapHas(cache, key)
          /\ (\E key \in ApplicableKeys(ev'.c) : ~MapHas(cache, key))
               => (ev'.path = "fetch" /\ "gh" \in ev'.called)]_vars

\* C9: a joint fetch in which exactly one call rejects returns and caches the
\* normal merge with the failing source taken as null.
C9_SingleFailureKeepsGroup ==
  (/\ ev.op = "settle"
   /\ Cardinality({kind \in Applicable(InfoOf[ev.c].keys) : ev.outcome[kind] = "reject"}) = 1)
    => LET asNull == [kind \in DOMAIN ev.outcome |->
                        IF ev.outcome[kind] = "reject" THEN "null"
                        ELSE ev.outcome[kind]]
           merge == FetchEnd(ev.c, ev.v, asNull).ret
       IN ev.ret = merge /\ MapGet(cache, ChecksumOf(ev.c, ev.v)) = merge

\* the degraded PropertySet as the catch block builds it
IsDegradedSet(props, c) ==
  /\ props["Patch Status"] = Str("Error fetching data")
  /\ props["Criticality"] = Str("Unknown")
  /\ props["Component Supplier"] = Str("Unknown")
  /\ props["Component Origin"] = Str("Unknown")
  /\ props["Unique Identifier"] =
       (IF c.purl # "" THEN Str(c.purl) ELSE IF c.name # "" THEN Str(c.name) ELSE NA)

\* (c, v) and (d, w) are field-equal in every relevant field
FieldEqualInputs(c, v, d, w) == FpRelevantOf[c, v] = FpRelevantOf[d, w]

\* C10: a resolution that ends in the catch block returns the
\* degraded PropertySet and has cached it; every later call on a field-equal
\* component, with no clear() in between, makes no external call and returns
\* that degraded set.
C10_DegradedIsSticky ==
  /\ (ev.op = "settle" /\ ev.path = "error")
       => /\ IsDegradedSet(ev.ret, ev.c)
          /\ MapGet(cache, ChecksumOf(ev.c, ev.v)) = ev.ret
  /\ ev.op = "resolve"
       => \A d \in degraded :
            FieldEqualInputs(d.c, d.v, ev.c, ev.v)
              => (ev.called = {} /\ ev.ret = d.ret)

\* ------------------------------------------------------------------------
\* The cached path against the fetching path, on every source assignment
\* ------------------------------------------------------------------------

InitMerge ==
  /\ FpIdle
  /\ CacheConstructed
  /\ ev = NoCall
  /\ sources \in [pkg : PkgDataChoices, vuln : VulnDataChoices, gh : GhDataChoices]
  /\ NothingUploaded

\* a call made when it will not have to fetch
\* a call that goes as r says, when r does not suspend
ResolveUnsuspended(c, v, r) ==
  /\ r.path # "fetch"
  /\ ResolveAs(c, v, r)

ResolveFromCache(c, v) == ResolveUnsuspended(c, v, FetchStart(cache, c, v))

NextMerge ==
  \/ \E c \in MergeComponents, kind \in {"pkg", "vuln", "gh"} : SourceCached(c, kind)
  \/ \E c \in MergeComponents, v \in MergeVulnerabilityLists : ResolveFromCache(c, v)

SpecMerge == InitMerge /\ [][NextMerge]_vars

\* what the fetching path returns for (c, v) when every source delivers
FullFetchResult(c, v) ==
  FetchEnd(c, v, [pkg |-> "value", vuln |-> "value", gh |-> "value"]).ret

\* every applicable dependency key of c holds what its source would return
Prepopulated(m, c) ==
  \A kind \in Applicable(InfoOf[c].keys) :
    MapHas(m, InfoOf[c].keys[kind]) /\ m[InfoOf[c].keys[kind]] = sources[kind]

\* C7: when every applicable dependency key is cached with the value its source
\* would return, the PropertySet of the cached path equals, property by
\* property, the PropertySet the fetching path produces from the same source
\* values.
C7_FastPathEquivalence ==
  [][(ev'.op = "resolve" /\ ev'.path = "fast" /\ Prepopulated(cache, ev'.c))
       => \A name \in DOMAIN FullFetchResult(ev'.c, ev'.v) :
            ev'.ret[name] = FullFetchResult(ev'.c, ev'.v)[name]]_vars

\* the cached path has produced a PropertySet that draws on package,
\* vulnerability and repository data and on an in-document vulnerability
C7_Witness ==
  /\ ev.op = "resolve"
  /\ ev.path = "fast"
  /\ Prepopulated(cache, ev.c)
  /\ Applicable(InfoOf[ev.c].keys) = {"pkg", "vuln", "gh"}
  /\ sources.pkg # Null /\ sources.vuln # Null /\ sources.gh = GhDataPopular
  /\ ev.v # <<>>
  /\ ev.ret["Criticality"] = Str("High")
  /\ ev.ret["Component Supplier"] = Str("Open-source")
  /\ ev.ret = FullFetchResult(ev.c, ev.v)


\* ------------------------------------------------------------------------
\* Uploads whose background runs overlap
\* ------------------------------------------------------------------------

InitDoc ==
  /\ FpIdle
  /\ CacheConstructed
  /\ ev = NoCall
  /\ sources = [pkg |-> PkgDataFull, vuln |-> VulnDataFixed, gh |-> GhDataPopular]
  /\ NothingUploaded

\* the outcomes of a joint fetch in which the package and the vulnerability
\* call deliver and the repository call delivers, yields null or rejects
DocOutcomes == {o \in ResolveOutcomes : o.pkg = "value" /\ o.vuln = "value"}

NextDoc ==
  \/ \E d \in UploadDocs : Upload(d)
  \/ \E i \in 1..Len(tasks), outcome \in DocOutcomes : Settle(i, outcome)
  \/ CallClear

SpecDoc == InitDoc /\ [][NextDoc]_vars

\* an upload that neither writes the cache nor starts a component resolution
\* nor reaches a collaborator, and that ends with list on display
ShortCircuits(list) ==
  /\ ev'.path = "hit"
  /\ ev'.started = 0
  /\ ev'.called = {}
  /\ ev'.ret = list
  /\ components' = list
  /\ UNCHANGED <<cache, storage, tasks, runs>>

MaxDays == 1

\* the instants the clock is read at: the first three milliseconds of the
\* session and the milliseconds around each later multiple of maxCacheAge
Instants ==
  {d * maxCacheAge + o : d \in 0..MaxDays, o \in {0, 1, 2}} \ {0}

LoadKeys == {"k1", "k2"}
LoadValues == {Str("v1"), Obj(<<Mem("a", Null)>>)}

\* the cache property of an item that was not written by saveToStorage
ForeignCaches ==
  {CacheField(f, <<>>) : f \in {"missing", "null", "number", "object", "list"}}
  \cup {CacheField("list", <<ListItem("pair", "k1", Str("v1"))>>),
        CacheField("list", <<ListItem("short", "k1", Undef)>>),
        CacheField("list", <<ListItem("scalar", "", Undef)>>),
        CacheField("list", <<ListItem("pair", "k1", Str("v1")),
                             ListItem("pair", "k1", Str("v2"))>>),
        CacheField("list", <<ListItem("pair", "k1", Str("v1")),
                             ListItem("scalar", "", Undef)>>)}

NoCacheField == CacheField("missing", <<>>)

\* what something else than saveToStorage can write under the storage key
\* at time t
ForeignItems(t) ==
  {Item(f, FALSE, 0, NoCacheField, FALSE, 0) :
     f \in {"empty", "unparseable", "null", "scalar"}}
  \cup {Item("object", FALSE, 0, c, FALSE, 0) : c \in ForeignCaches}
  \cup {Item("object", TRUE, t, c, hs, IF hs THEN t ELSE 0) :
          c \in ForeignCaches, hs \in BOOLEAN}

\* the first CacheService of the browser profile was constructed at the
\* first instant with nothing stored
InitLoad ==
  /\ FpIdle
  /\ cache = EmptyMap
  /\ sessionStartTime = 1
  /\ storage = NoSnapshot
  /\ storageWritable = TRUE
  /\ now = 1
  /\ lastSet = EmptyMap
  /\ ev = NoCall
  /\ sources = <<>>
  /\ NothingUploaded

\* the page is loaded again
CallRestart ==
  /\ Restart
  /\ ev' = [op |-> "construct", stored |-> storage, at |-> now]
  /\ sources' = <<>>
  /\ tasks' = <<>>
  /\ degraded' = {}
  /\ runs' = <<>>
  /\ components' = <<>>
  /\ completed' = {}
  /\ fetchProgress' = ProgressIdle
  /\ sbom' = Null
  /\ notification' = Null
  /\ UNCHANGED fpVars

\* something else than this CacheService writes the item
Plant(item) ==
  /\ storage' = item
  /\ ev' = [op |-> "plant"]
  /\ UNCHANGED <<fpVars, resolveVars, docVars, cache, sessionStartTime, storageWritable, now,
                 lastSet>>

\* time passes until a later instant
Advance(t) ==
  /\ t > now
  /\ now' = t
  /\ UNCHANGED <<fpVars, resolveVars, docVars, cache, sessionStartTime, storage, storageWritable,
                 ev, lastSet>>

NextLoad ==
  \/ \E key \in LoadKeys, value \in LoadValues : CallSet(key, value)
  \/ \E item \in ForeignItems(now) : Plant(item)
  \/ \E t \in Instants : Advance(t)
  \/ CallRestart

SpecLoad == InitLoad /\ [][NextLoad]_vars

\* a stored item that has the shape of a snapshot: what saveToStorage wrote,
\* or an object whose cache is a list of [key, value] pairs
WellFormed(stored) ==
  \/ stored.kind = "snapshot"
  \/ /\ stored.kind = "item"
     /\ stored.form = "object"
     /\ stored.cache.form = "list"
     /\ \A i \in DOMAIN stored.cache.items : stored.cache.items[i].form = "pair"

\* the age of the stored item at time t is known and under 24 hours
Younger(stored, t) ==
  /\ stored.kind = "item" => stored.hasTimestamp
  /\ t - stored.timestamp <= 86399999

RECURSIVE PairsAsMap(_)
\* the entries a list of pairs stands for, a later pair replacing an earlier
\* one with its key
PairsAsMap(items) ==
  IF items = <<>> THEN EmptyMap
  ELSE LET rest == PairsAsMap(SubSeq(items, 1, Len(items) - 1))
           last == items[Len(items)]
       IN [k \in DOMAIN rest \cup {last.key} |->
             IF k = last.key THEN last.value ELSE rest[k]]

\* the entries of a well-formed stored item, as parsed
EntriesOf(stored) ==
  IF stored.kind = "snapshot" THEN ReviveEntries(stored.cache)
  ELSE PairsAsMap(stored.cache.items)

\* C11: a CacheService constructed over a snapshot that is 24 hours old or
\* older, or that has no timestamp, starts empty, answers no key and has
\* removed the snapshot; constructed over a younger snapshot, it holds
\* exactly the snapshot's entries.
C11_AgedDiscardedYoungLoaded ==
  (ev.op = "construct" /\ WellFormed(ev.stored)) =>
     IF Younger(ev.stored, ev.at)
     THEN cache = EntriesOf(ev.stored)
     ELSE /\ cache = EmptyMap
          /\ \A k \in LoadKeys : ~has(k) /\ get(k) = Undef
          /\ storage = NoSnapshot

\* a snapshot with an entry, written exactly 24 hours before the page
\* loads, is discarded
C11_Witness ==
  /\ ev.op = "construct"
  /\ ev.stored.kind = "snapshot"
  /\ ev.stored.cache # EmptyMap
  /\ ev.at - ev.stored.timestamp = 86400000
  /\ cache = EmptyMap
  /\ storage = NoSnapshot


\* a stored item that is no snapshot: text that does not parse, a value that
\* is no object, or an object whose cache is something else than a list of
\* [key, value] pairs
Corrupt(stored) ==
  /\ stored.kind = "item"
  /\ \/ stored.form \in {"unparseable", "null", "scalar"}
     \/ /\ stored.form = "object"
        /\ stored.cache.form \in {"null", "number", "object", "list"}
        /\ ~WellFormed(stored)

\* C12: a CacheService constructed over a corrupt stored item starts empty,
\* as if nothing had been stored, and has removed the item.
C12_CorruptIgnoredAndRemoved ==
  (ev.op = "construct" /\ Corrupt(ev.stored)) =>
     /\ cache = EmptyMap
     /\ storage = NoSnapshot


\* ------------------------------------------------------------------------
\* Sessions: the CacheService is used, time passes and the page is loaded
\* again, with localStorage accepting every write
\* ------------------------------------------------------------------------

TTLsMs == {0, 1}

\* what set stores in a session: an object with a null member
SessionValues == {Obj(<<Mem("a", Null)>>)}

CallForceClear ==
  /\ forceClear
  /\ ev' = [op |-> "forceClear", held |-> Cardinality(DOMAIN cache)]
  /\ degraded' = {}
  /\ completed' = {}
  /\ UNCHANGED <<fpVars, sources, tasks, runs, components, fetchProgress, sbom,
                 notification>>

CallGetStats ==
  /\ ev' = [op |-> "getStats", ret |-> getStats]
  /\ UNCHANGED <<fpVars, resolveVars, docVars, cacheVars>>

NextPersist ==
  \/ \E key \in LoadKeys, value \in SessionValues : CallSet(key, value)
  \/ \E key \in LoadKeys, value \in TTLValues, ttlMs \in TTLsMs :
        CallSetWithTTL(key, value, ttlMs)
  \/ \E key \in LoadKeys : CallGetWithTTL(key)
  \/ \E key \in LoadKeys : CallGet(key)
  \/ \E key \in LoadKeys : CallHas(key)
  \/ CallGetStats
  \/ CallClear
  \/ CallForceClear
  \/ \E t \in Instants : Advance(t)
  \/ CallRestart

SpecPersist == InitLoad /\ [][NextPersist]_vars

\* C13: as long as localStorage accepts the writes, after construction and
\* after every set, setWithTTL, getWithTTL and clear, either nothing is
\* stored and the Map is empty, or the stored snapshot parses to exactly the
\* entries of the Map and carries the session start time of the CacheService.
C13_WriteThrough ==
  \/ /\ storage = NoSnapshot
     /\ cache = EmptyMap
  \/ /\ storage.kind = "snapshot"
     /\ ReviveEntries(storage.cache) = cache
     /\ storage.sessionStartTime = sessionStartTime

\* getWithTTL has just removed an expired entry while an older entry without
\* expiry stays, and the snapshot written by the removal holds that entry only
C13_Witness ==
  /\ ev.op = "getWithTTL"
  /\ ev.ret = Null
  /\ ~MapHas(cache, ev.key)
  /\ \E k \in DOMAIN cache : "ttl" \in DOMAIN cache[k] /\ cache[k].timestamp < now
  /\ storage.kind = "snapshot"
  /\ storage.timestamp = now
  /\ DOMAIN storage.cache = DOMAIN cache


\* ------------------------------------------------------------------------
\* Calls of the CacheService while localStorage starts and stops refusing
\* writes
\* ------------------------------------------------------------------------

NextFault ==
  \/ \E key \in CacheKeys, value \in CacheValues : CallSet(key, value)
  \/ \E key \in CacheKeys : CallGet(key)
  \/ \E key \in CacheKeys : CallHas(key)
  \/ \E key \in CacheKeys, value \in TTLValues, ttlMs \in TTLs :
        CallSetWithTTL(key, value, ttlMs)
  \/ CallClear
  \/ StorageFault

SpecFault == InitCache /\ [][NextFault]_vars

\* C14: when localStorage refuses the write of a set or a setWithTTL, the
\* call returns all the same, the Map is updated exactly as by a write that
\* succeeded while the stored item stays as it was, and every get and has
\* answers from the Map alone. (A step that leaves the clock and the state of
\* localStorage alone is a call of the CacheService.)
C14_WriteFailureKeepsMemory ==
  [][UNCHANGED <<now, storageWritable>> =>
       /\ (ev'.op = "set" /\ ~storageWritable) =>
            /\ cache' = MapSet(cache, ev'.key, ev'.value)
            /\ storage' = storage
       /\ (ev'.op = "setWithTTL" /\ ~storageWritable) =>
            /\ \E ttlMs \in TTLs :
                 cache' = MapSet(cache, ev'.key, TTLEntry(ev'.value, now, ttlMs))
            /\ storage' = storage
       /\ ev'.op = "get" =>
            /\ ev'.ret = (IF ev'.key \in DOMAIN cache THEN cache[ev'.key] ELSE Undef)
            /\ cache' = cache
       /\ ev'.op = "has" =>
            /\ ev'.ret = (ev'.key \in DOMAIN cache)
            /\ cache' = cache]_vars

\* a key stored as v1 was set to v2 while localStorage refused the write:
\* get answers v2 although the stored snapshot still says v1
C14_Witness ==
  /\ ev.op = "get"
  /\ ev.ret = Str("v2")
  /\ ~storageWritable
  /\ storage.kind = "snapshot"
  /\ MapHas(storage.cache, ev.key)
  /\ storage.cache[ev.key] = Str("v1")


\* C15: right after clear() or forceClear() the Map is empty, has(k) is false
\* for every key, getStats() reports no entry and nothing is stored; and a
\* page load that follows before anything is written starts with an empty
\* Map.
C15_ClearEmptiesAll ==
  [][/\ ev'.op \in {"clear", "forceClear"} =>
          /\ cache' = EmptyMap
          /\ \A k \in LoadKeys : k \notin DOMAIN cache'
          /\ Cardinality(DOMAIN cache') = 0
          /\ storage' = NoSnapshot
     /\ (ev.op \in {"clear", "forceClear"} /\ ev'.op = "getStats") =>
          ev'.ret.size = 0 /\ ev'.ret.keys = {}
     /\ (ev.op \in {"clear", "forceClear"} /\ ev'.op = "has") => ev'.ret = FALSE
     /\ (ev.op \in {"clear", "forceClear"} /\ ev'.op = "construct") =>
          cache' = EmptyMap]_vars

\* forceClear() was called on a CacheService holding two entries that were
\* stored as well: the Map is empty and nothing is stored
C15_Witness ==
  /\ ev.op = "forceClear"
  /\ ev.held = 2
  /\ cache = EmptyMap
  /\ getStats.size = 0
  /\ storage = NoSnapshot
  /\ Construct(storage, now).cache = EmptyMap


\* C16: getWithTTL(k) on an entry stored by setWithTTL(k, v, ttl) returns v
\* when ttl is 0, however much time has passed, and when the time passed
\* since the write is not more than ttl, and it leaves the Map alone; when
\* ttl is positive and more time than ttl has passed it returns null, the
\* entry is gone from the Map and the stored snapshot is the Map without it.
C16_ExpiryOnRead ==
  [][(ev'.op = "getWithTTL" /\ now' = now /\ ev'.key \in DOMAIN cache
        /\ "ttl" \in DOMAIN cache[ev'.key]) =>
       LET entry == cache[ev'.key]
       IN IF entry.ttl = 0 \/ now - entry.timestamp <= entry.ttl
          THEN /\ ev'.ret = entry.value
               /\ cache' = cache
          ELSE /\ ev'.ret = Null
               /\ cache' = [k \in DOMAIN cache \ {ev'.key} |-> cache[k]]
               /\ storage'.kind = "snapshot"
               /\ storage'.timestamp = now
               /\ ReviveEntries(storage'.cache) = cache']_vars

\* the only entry, stored with a ttl, was read after its ttl: the read gave
\* null and wrote a snapshot without entries
C16_Witness ==
  /\ ev.op = "getWithTTL"
  /\ ev.ret = Null
  /\ cache = EmptyMap
  /\ storage.kind = "snapshot"
  /\ storage.cache = EmptyMap
  /\ storage.timestamp = now


\* the entry under the key was stored with a positive ttl and more time
\* than that has passed
PastTTL(key) ==
  /\ key \in DOMAIN cache
  /\ "ttl" \in DOMAIN cache[key]
  /\ cache[key].ttl > 0
  /\ now - cache[key].timestamp > cache[key].ttl

\* C17: an entry that is past its ttl is absent for every read: get(k)
\* returns undefined and has(k) false, as getWithTTL(k) returns null.
C17_ExpiredAbsentForEveryRead ==
  [][(now' = now /\ ev'.op \in {"get", "has", "getWithTTL"} /\ PastTTL(ev'.key)) =>
       /\ ev'.op = "get" => ev'.ret = Undef
       /\ ev'.op = "has" => ev'.ret = FALSE
       /\ ev'.op = "getWithTTL" => ev'.ret = Null]_vars


\* ------------------------------------------------------------------------
\* One background run whose calls complete in either order
\* ------------------------------------------------------------------------

\* an upload while no call of an earlier run is suspended
UploadIdle(d) ==
  /\ tasks = <<>>
  /\ Upload(d)

NextOrder ==
  \/ \E d \in OrderDocs : UploadIdle(d)
  \/ \E i \in 1..Len(tasks), outcome \in DocOutcomes : Settle(i, outcome)
  \/ CallClear

SpecOrder == InitDoc /\ [][NextOrder]_vars

\* C18: when the two calls of a run have completed, in whichever order, the
\* displayed list is as long as the uploaded one and its i-th element is the
\* i-th uploaded component with the PropertySet merged in that was resolved
\* for that component.
C18_ResultsFollowInputOrder ==
  [][(ev'.op = "settle" /\ ev'.finished /\ ev.op = "settle" /\ ~ev.finished) =>
       LET doc == runs[Len(runs)].doc
           updated == updatedComponents(doc)
           resolved == [i \in DOMAIN doc.components |->
                          IF doc.components[i] = ev'.c THEN ev'.ret ELSE ev.ret]
       IN /\ Len(components') = Len(doc.components)
          /\ \A i \in DOMAIN doc.components :
               /\ components'[i].component = doc.components[i]
               /\ components'[i].properties =
                    MergeFrom(updated[i].properties, resolved[i], 1)]_vars

\* the call for the second component completed first and with another
\* result than the call for the first component, which has just completed
C18_Witness ==
  /\ ev.op = "settle"
  /\ ev.finished
  /\ Len(components) = 2
  /\ ev.c = components[1].component
  /\ components[1].properties # components[2].properties
  /\ components[1].properties = MergeFrom(updatedComponents(DocPair)[1].properties, ev.ret, 1)


\* ------------------------------------------------------------------------
\* The merge of one resolved PropertySet into one uploaded component
\* ------------------------------------------------------------------------

Prop(name, value) == [name |-> name, value |-> value]

\* component c written with a property list
WithProperties(c, props) ==
  [name |-> c.name, version |-> c.version, purl |-> c.purl, group |-> c.group,
   refs |-> c.refs, ref |-> c.ref, shape |-> c.shape, properties |-> props]

\* property lists of an uploaded component: none, CERT-In properties with
\* values and with NA, properties of other names around them, and a CERT-In
\* name that occurs twice
ExistingLists ==
  {<<>>,
   <<Prop("Patch Status", "old")>>,
   <<Prop("Patch Status", "NA")>>,
   <<Prop("Criticality", "Low"), Prop("Patch Status", "old")>>,
   <<Prop("custom", "x")>>,
   <<Prop("custom", "x"), Prop("Patch Status", "old"), Prop("other", "y")>>,
   <<Prop("Criticality", "Low"), Prop("custom", "NA")>>,
   <<Prop("Patch Status", "old"), Prop("custom", "x"), Prop("Patch Status", "older")>>,
   <<Prop("Criticality", "Low"), Prop("Criticality", "High")>>}

\* resolved values of a property: a text, NA, null, or none at all
PatchValues == {Str("Up to date"), Str("NA"), Null, Undef}
CriticalityValues == {Str("High"), Str("NA"), Null, Undef}

\* the PropertySet with the given values, the other properties being NA; a
\* value of undefined stands for a property the set does not have
FetchedSet(patch, criticality) ==
  [k \in {n \in {CERT_IN_PROPERTIES[i] : i \in DOMAIN CERT_IN_PROPERTIES} :
            /\ n = "Patch Status" => patch # Undef
            /\ n = "Criticality" => criticality # Undef} |->
     IF k = "Patch Status" THEN patch
     ELSE IF k = "Criticality" THEN criticality
     ELSE Str("NA")]

\* a document of one component has been read and its PropertySet resolved
InitMergeProps ==
  /\ FpIdle
  /\ CacheConstructed
  /\ sources = <<>>
  /\ NothingUploaded
  /\ \E props \in ExistingLists, patch \in PatchValues, criticality \in CriticalityValues,
        c \in {CompNpm, CompUnknown} :
       ev = [op |-> "read", doc |-> UploadDoc(<<WithProperties(c, props)>>),
             fetched |-> FetchedSet(patch, criticality)]

\* updatedComponents is built and the PropertySet merged into it
MergeUploaded ==
  /\ ev.op = "read"
  /\ components' = MergeProperties(updatedComponents(ev.doc), <<ev.fetched>>)
  /\ ev' = [ev EXCEPT !.op = "merged"]
  /\ UNCHANGED <<fpVars, cacheVars, resolveVars, runs, completed, fetchProgress,
                 sbom, notification>>

NextMergeProps == MergeUploaded

SpecMergeProps == InitMergeProps /\ [][NextMergeProps]_vars

CertInNames == {CERT_IN_PROPERTIES[i] : i \in DOMAIN CERT_IN_PROPERTIES}

\* the value resolved for a property is there and is not NA
Derived(fetched, name) ==
  /\ name \in DOMAIN fetched
  /\ fetched[name].t = "str"
  /\ fetched[name].s # ""
  /\ fetched[name].s # "NA"

\* the uploaded property list followed by an NA property for every CERT-In
\* name it lacks, in the order of CERT_IN_PROPERTIES
Completed(props) ==
  props \o
    [i \in 1..Cardinality({n \in CertInNames : \A p \in DOMAIN props : props[p].name # n}) |->
       LET missing == {j \in DOMAIN CERT_IN_PROPERTIES :
                         \A p \in DOMAIN props : props[p].name # CERT_IN_PROPERTIES[j]}
           j == CHOOSE k \in missing : Cardinality({l \in missing : l < k}) = i - 1
       IN Prop(CERT_IN_PROPERTIES[j], "NA")]

\* the merged list has the properties of the completed list in their order,
\* and the component is the uploaded one
FrameKept ==
  LET before == Completed(ev.doc.components[1].properties)
      after == components[1].properties
  IN /\ Len(components) = 1
     /\ components[1].component = ev.doc.components[1]
     /\ Len(after) = Len(before)
     /\ \A p \in DOMAIN before :
          /\ after[p].name = before[p].name
          /\ before[p].name \notin CertInNames => after[p] = before[p]

FirstOfNameMerged ==
  ev.op = "merged" =>
    /\ FrameKept
    /\ LET before == Completed(ev.doc.components[1].properties)
           after == components[1].properties
       IN \A p \in DOMAIN before :
            before[p].name \in CertInNames =>
              after[p].value =
                IF /\ Derived(ev.fetched, before[p].name)
                   /\ \A q \in 1..(p - 1) : before[q].name # before[p].name
                THEN ev.fetched[before[p].name].s
                ELSE before[p].value

\* a component with a custom property between two properties called Patch
\* Status was merged with a resolved Patch Status and a null Criticality:
\* the first Patch Status has the resolved value
FirstOfNameMergedWitness ==
  /\ ev.op = "merged"
  /\ Len(ev.doc.components[1].properties) = 3
  /\ "Patch Status" \in DOMAIN ev.fetched
  /\ ev.fetched["Patch Status"] = Str("Up to date")
  /\ "Criticality" \in DOMAIN ev.fetched
  /\ ev.fetched["Criticality"] = Null
  /\ components[1].properties[1] = Prop("Patch Status", "Up to date")
  /\ components[1].properties[2] = Prop("custom", "x")


\* ------------------------------------------------------------------------
\* Patch Status over the answers of the vulnerability source and the registry
\* ------------------------------------------------------------------------

\* what the vulnerability source answered: nothing, or an aggregate that
\* says whether there are vulnerabilities, with or without a list of fixed
\* versions
VulnAnswers ==
  {[present |-> FALSE, has |-> FALSE, listed |-> FALSE, fixed |-> <<>>]}
  \cup {[present |-> TRUE, has |-> h, listed |-> FALSE, fixed |-> <<>>] : h \in BOOLEAN}
  \cup {[present |-> TRUE, has |-> h, listed |-> TRUE, fixed |-> f] :
          h \in BOOLEAN, f \in {<<>>, <<"3">>, <<"3", "4">>}}

\* the installed version of the component ("" when it has none) and what the
\* registry answered: nothing, or metadata with a latest version ("" when
\* it has none)
InstalledVersions == {"", "1", "2"}
PkgAnswers ==
  {[present |-> FALSE, latest |-> ""]}
  \cup {[present |-> TRUE, latest |-> l] : l \in {"", "1", "2"}}

\* the vulnerability aggregate as the source delivers it
VulnDataFrom(a) ==
  IF ~a.present THEN Null
  ELSE Obj(<<Mem("hasVulnerabilities", Bool(a.has))>>
           \o IF a.listed
              THEN <<Mem("fixedVersions", Arr([i \in DOMAIN a.fixed |-> Str(a.fixed[i])]))>>
              ELSE <<>>)

\* the package metadata as the registry delivers it
PkgDataFrom(a) ==
  IF ~a.present THEN Null
  ELSE Obj(PresentMems(<<Mem("name", Str("a")), Mem("latestVersion", OptStr(a.latest))>>))

\* pkgInfo of an npm component with the given version
PkgInfoFrom(version) ==
  Obj(PresentMems(<<Mem("ecosystem", Str("npm")), Mem("name", Str("a")),
                    Mem("version", OptStr(version))>>))

InitPatch ==
  /\ FpIdle
  /\ CacheConstructed
  /\ sources = <<>>
  /\ NothingUploaded
  /\ \E vuln \in VulnAnswers, installed \in InstalledVersions, pkg \in PkgAnswers :
       ev = [op |-> "answers", vuln |-> vuln, installed |-> installed, pkg |-> pkg,
             ret |-> Undef]

\* computePatchStatus is called on the answers
ComputePatch ==
  /\ ev.op = "answers"
  /\ ev' = [ev EXCEPT !.op = "patchStatus",
                      !.ret = computePatchStatus(VulnDataFrom(ev.vuln),
                                                 PkgInfoFrom(ev.installed),
                                                 PkgDataFrom(ev.pkg))]
  /\ UNCHANGED <<fpVars, cacheVars, resolveVars, docVars>>

NextPatch == ComputePatch

SpecPatch == InitPatch /\ [][NextPatch]_vars

\* the aggregate reports vulnerabilities
Reports(vuln) == vuln.present /\ vuln.has

\* C20 as stated: with vulnerabilities reported the status names the first
\* fixed version, or NA when the list is empty or missing; otherwise it names
\* the latest version when that differs from the installed version, and
\* otherwise it is "Up to date".
C20_Stated ==
  ev.op = "patchStatus" =>
    ev.ret =
      IF Reports(ev.vuln)
      THEN IF ev.vuln.fixed # <<>>
           THEN Str("Update available (>= " \o ev.vuln.fixed[1] \o ")")
           ELSE Str("Update available (>= NA)")
      ELSE IF ev.pkg.latest # "" /\ ev.pkg.latest # ev.installed
           THEN Str("Update available (latest " \o ev.pkg.latest \o ")")
           ELSE Str("Up to date")

\* C20: with vulnerabilities reported the status names the first fixed
\* version, or NA when the list is empty or missing; otherwise it names the
\* latest version when the latest and the installed version are both known
\* and differ, and otherwise it is "Up to date".
C20_PatchStatus ==
  ev.op = "patchStatus" =>
    ev.ret =
      IF Reports(ev.vuln)
      THEN IF ev.vuln.fixed # <<>>
           THEN Str("Update available (>= " \o ev.vuln.fixed[1] \o ")")
           ELSE Str("Update available (>= NA)")
      ELSE IF ev.pkg.latest # "" /\ ev.installed # "" /\ ev.pkg.latest # ev.installed
           THEN Str("Update available (latest " \o ev.pkg.latest \o ")")
           ELSE Str("Up to date")

\* no vulnerabilities are reported and the registry knows a latest version
\* of a component that has no version: the status is "Up to date"
C20_Witness ==
  /\ ev.op = "patchStatus"
  /\ ev.vuln.present
  /\ ~ev.vuln.has
  /\ ev.pkg.latest = "2"
  /\ ev.installed = ""
  /\ ev.ret = Str("Up to date")


\* ------------------------------------------------------------------------
\* The derivation rules over what the sources hold for a component
\* ------------------------------------------------------------------------

\* a component, the document's vulnerability list and the answers of the
\* three sources have been obtained
InitDerive ==
  /\ FpIdle
  /\ CacheConstructed
  /\ sources = <<>>
  /\ NothingUploaded
  /\ \E c \in MergeComponents, v \in MergeVulnerabilityLists, pkgData \in PkgDataChoices,
        vulnData \in VulnDataChoices, ghData \in GhDataChoices :
       ev = [op |-> "data", c |-> c, v |-> v, pkgData |-> pkgData,
             vulnData |-> vulnData, ghData |-> ghData, ret |-> <<>>]

\* the merge of fetchComponentData after the joint await
DeriveFetched ==
  /\ ev.op = "data"
  /\ ev' = [ev EXCEPT !.op = "fetched",
                      !.ret = MergeFetchedOf[ev.c, ev.v, ev.pkgData, ev.vulnData,
                                             ev.ghData]]
  /\ UNCHANGED <<fpVars, cacheVars, resolveVars, docVars>>

\* buildPropertiesFromCachedData on the same data
DeriveCached ==
  /\ ev.op = "data"
  /\ ev' = [ev EXCEPT !.op = "cached",
                      !.ret = BuildFromCachedOf[ev.c, ev.v, ev.pkgData, ev.vulnData,
                                                ev.ghData]]
  /\ UNCHANGED <<fpVars, cacheVars, resolveVars, docVars>>

NextDerive == DeriveFetched \/ DeriveCached

SpecDerive == InitDerive /\ [][NextDerive]_vars

\* text ends with suffix
EndsWith(text, suffix) ==
  /\ Len(text) >= Len(suffix)
  /\ SubSeq(text, Len(text) - Len(suffix) + 1, Len(text)) = suffix

\* C21: Comments or Notes ends with "Recommended version: F" when the
\* aggregate lists a first fixed version F, and with "Recommended version:
\* NA" when the Patch Status says that an update is available and the
\* aggregate lists no fixed version.
C21_Recommendation ==
  ev.op \in {"fetched", "cached"} =>
    LET notes == ev.ret["Comments or Notes"].s
        patch == ev.ret["Patch Status"].s
    IN IF ev.vulnData = VulnDataFixed
       THEN EndsWith(notes, "Recommended version: 1.1")
       ELSE startsWith(patch, "Update available") =>
              EndsWith(notes, "Recommended version: NA")


\* ------------------------------------------------------------------------
\* Criticality over in-document vulnerability records with several ratings
\* ------------------------------------------------------------------------

\* the severities of the ratings of one record; "" is a rating without a
\* severity
RatingLists ==
  {<<>>, <<"HIGH">>, <<"low", "CRITICAL">>, <<"MEDIUM", "">>, <<"HIGH", "INFO">>}

\* an in-document record that affects reference id ref
SbomRecords == [ref : {"r1", "r2"}, sevs : RatingLists]

\* JSON.parse of such a record
ParseSbomRecord(r) ==
  Obj(<<Mem("id", Str("V1")),
        Mem("affects", Arr(<<Obj(<<Mem("ref", Str(r.ref))>>)>>)),
        Mem("ratings",
            Arr([i \in DOMAIN r.sevs |->
                   Obj(PresentMems(<<Mem("severity", OptStr(r.sevs[i])),
                                     Mem("method", Str("other"))>>))]))>>)

\* the vulnerability lists of a document: one or two records
SbomRecordLists ==
  {<<r>> : r \in SbomRecords} \cup {<<r, s>> : r \in SbomRecords, s \in SbomRecords}

InitCriticality ==
  /\ FpIdle
  /\ CacheConstructed
  /\ sources = <<>>
  /\ NothingUploaded
  /\ \E records \in SbomRecordLists, vulnData \in {Null, VulnDataFixed, VulnDataUnfixed} :
       ev = [op |-> "records", records |-> records, vulnData |-> vulnData,
             ret |-> Undef]

\* the Criticality fetchComponentData derives for the npm component with
\* reference id r1
DeriveCriticality ==
  /\ ev.op = "records"
  /\ ev' = [ev EXCEPT
              !.op = "criticality",
              !.ret = MergeFetched(ParseComponent(CompNpm),
                                   extractPackageInfo(ParseComponent(CompNpm)),
                                   [i \in DOMAIN ev.records |->
                                      ParseSbomRecord(ev.records[i])],
                                   PkgDataFull, ev.vulnData, GhDataPopular,
                                   Null)["Criticality"]]
  /\ UNCHANGED <<fpVars, cacheVars, resolveVars, docVars>>

NextCriticality == DeriveCriticality

SpecCriticality == InitCriticality /\ [][NextCriticality]_vars

\* the severities, in upper case, of all ratings of the records that affect
\* reference id r1
SeveritiesFor(records) ==
  UNION {{toUpperCase(records[i].sevs[j]) : j \in DOMAIN records[i].sevs} :
           i \in {k \in DOMAIN records : records[k].ref = "r1"}}

\* C22: when the records that affect the component carry a rating with a
\* recognized severity, Criticality is the highest of their severities in
\* the order CRITICAL > HIGH > MEDIUM > LOW, in title case, whatever other
\* ratings they carry and whatever the aggregate says.
C22_HighestSeverity ==
  ev.op = "criticality" =>
    LET sevs == SeveritiesFor(ev.records)
    IN IF "CRITICAL" \in sevs THEN ev.ret = Str("Critical")
       ELSE IF "HIGH" \in sevs THEN ev.ret = Str("High")
       ELSE IF "MEDIUM" \in sevs THEN ev.ret = Str("Medium")
       ELSE IF "LOW" \in sevs THEN ev.ret = Str("Low")
       ELSE TRUE


\* ------------------------------------------------------------------------
\* Criticality without an in-document severity: score bands, the source's
\* categorical rating, null
\* ------------------------------------------------------------------------

\* maximum CVSS scores of an aggregate, around the band limits; "" is an
\* aggregate without the field
Scores == {"", "0", "1", "3", "4", "6", "7", "8", "9", "10"}

\* categorical ratings of an aggregate; "" is an aggregate without one
Categoricals == {"", "Low", "Critical"}

\* the aggregate of the vulnerability client with a score and a rating
VulnDataWith(score, categorical) ==
  Obj(PresentMems(<<Mem("hasVulnerabilities", Bool(TRUE)), Mem("totalVulns", Num("1")),
                    Mem("fixedVersions", Arr(<<>>)),
                    Mem("maxCvssScore",
                        IF score = "" THEN Undef ELSE Num(score)),
                    Mem("categoricalSeverity", OptStr(categorical))>>))

\* vulnerability lists of a document none of whose records yields a severity
\* for reference id r1: no record, a record of another component, a record
\* without ratings
UnratedRecordLists ==
  {<<>>, <<[ref |-> "r2", sevs |-> <<"HIGH">>]>>, <<[ref |-> "r1", sevs |-> <<>>]>>}

\* the Criticality property of the uploaded component: none, or a value
ExistingCriticality == {<<>>, <<Prop("Criticality", "Medium")>>}

InitBand ==
  /\ FpIdle
  /\ CacheConstructed
  /\ sources = <<>>
  /\ NothingUploaded
  /\ \E records \in UnratedRecordLists, existing \in ExistingCriticality,
        hasData \in BOOLEAN, score \in Scores, categorical \in Categoricals :
       /\ ~hasData => score = "" /\ categorical = ""
       /\ ev = [op |-> "aggregate", records |-> records, existing |-> existing,
                hasData |-> hasData, score |-> score, categorical |-> categorical,
                ret |-> Undef, merged |-> <<>>]

\* the PropertySet of the npm component with reference id r1, from the joint
\* await (cached = FALSE) or from the dependency caches (cached = TRUE)
BandSet(cached, records, vulnData) ==
  LET component == ParseComponent(CompNpm)
      pkgInfo == extractPackageInfo(component)
      sbomVulnerabilities == [i \in DOMAIN records |-> ParseSbomRecord(records[i])]
  IN IF cached
     THEN BuildFromCached(component, pkgInfo, sbomVulnerabilities, PkgDataFull,
                          vulnData, GhDataPopular)
     ELSE MergeFetched(component, pkgInfo, sbomVulnerabilities, PkgDataFull,
                       vulnData, GhDataPopular, Null)

\* the event after the set is derived and merged into the uploaded
\* component's properties
BandEvent(e, cached) ==
  LET derived == BandSet(cached, e.records,
                         IF e.hasData THEN VulnDataWith(e.score, e.categorical) ELSE Null)
  IN [e EXCEPT !.op = IF cached THEN "cached" ELSE "fetched",
               !.ret = derived["Criticality"],
               !.merged = MergeFrom(AddMissingFrom(e.existing, 1), derived, 1)]

\* fetchComponentData after the joint await, and the merge of its result
DeriveBandFetched ==
  /\ ev.op = "aggregate"
  /\ ev' = BandEvent(ev, FALSE)
  /\ UNCHANGED <<fpVars, cacheVars, resolveVars, docVars>>

\* buildPropertiesFromCachedData, and the merge of its result
DeriveBandCached ==
  /\ ev.op = "aggregate"
  /\ ev' = BandEvent(ev, TRUE)
  /\ UNCHANGED <<fpVars, cacheVars, resolveVars, docVars>>

NextBand == DeriveBandFetched \/ DeriveBandCached

SpecBand == InitBand /\ [][NextBand]_vars

\* the band of a score
BandOf(score) ==
  IF score \in {"", "0"} THEN ""
  ELSE IF score \in {"9", "10"} THEN "Critical"
  ELSE IF score \in {"7", "8"} THEN "High"
  ELSE IF score \in {"4", "6"} THEN "Medium"
  ELSE "Low"

\* the value of the Criticality property in a property list
CriticalityIn(props) == props[findIndex(props, "Criticality")].value

\* C23: when no in-document record yields a severity, Criticality is the band
\* of the aggregate's maximum CVSS score (>= 9 Critical, >= 7 High, >= 4
\* Medium, > 0 Low); when the score is 0 or absent it is the source's
\* categorical rating; when that is absent too it is null, and the merge then
\* keeps the value the document had (NA for a component without the property)
C23_BandThenCategorical ==
  ev.op \in {"fetched", "cached"} =>
    LET band == BandOf(ev.score)
        before == IF ev.existing = <<>> THEN "NA" ELSE ev.existing[1].value
    IN /\ band # "" => ev.ret = Str(band)
       /\ band = "" /\ ev.categorical # "" => ev.ret = Str(ev.categorical)
       /\ band = "" /\ ev.categorical = "" => ev.ret = Null
       /\ CriticalityIn(ev.merged) = IF ev.ret = Null THEN before ELSE ev.ret.s

\* a score of 0 with a categorical rating, resolved from the dependency caches
C23_Witness ==
  /\ ev.op = "cached"
  /\ ev.score = "0"
  /\ ev.categorical = "Critical"
  /\ ev.ret = Str("Critical")
  /\ CriticalityIn(ev.merged) = "Critical"


\* ------------------------------------------------------------------------
\* ErrorService.withRetry
\* ------------------------------------------------------------------------

\* the largest maxRetries a caller passes
MaxAttempts == 3

\* delay arguments, in ms
Delays == {0, 1000}

\* what one run of the operation settles with: a value, an Error object, or a
\* rejection with null
AttemptKinds == {"value", "error", "null"}

\* the settlement of run k of the operation
Settlement(kind, k) ==
  CASE kind = "value" -> [fulfilled |-> TRUE, with |-> Str("v" \o ToString36(<<0, k>>))]
    [] kind = "error" ->
         [fulfilled |-> FALSE,
          with |-> Obj(<<Mem("name", Str("Error")),
                         Mem("message", Str("e" \o ToString36(<<0, k>>)))>>)]
    [] OTHER -> [fulfilled |-> FALSE, with |-> Null]

\* reading error.name: a TypeError for null and undefined
ReadingNameThrows(error) == error.t \in {"null", "undef"}

\* logError(error, context): builds errorInfo from error.name, error.message
\* and error.stack and writes it to the console
logErrorThrows(error) == ReadingNameThrows(error)

\* the TypeError of reading a property of null
TypeErrorOfNull ==
  Obj(<<Mem("name", Str("TypeError")),
        Mem("message", Str("Cannot read properties of null"))>>)

\* the steps of a call: runs of the operation and timers set
Ran(k) == [what |-> "operation", n |-> k]
Waited(ms) == [what |-> "timer", n |-> ms]

\* a call of withRetry has its arguments; the operation's settlements are
\* fixed in advance, one for each run it may get
InitRetry ==
  /\ FpIdle
  /\ CacheConstructed
  /\ sources = <<>>
  /\ NothingUploaded
  /\ \E maxRetries \in 0..MaxAttempts, delay \in Delays,
        kinds \in [1..MaxAttempts -> AttemptKinds] :
       ev = [op |-> "withRetry", pc |-> "entry", maxRetries |-> maxRetries,
             delay |-> delay, kinds |-> kinds, attempt |-> 1, lastError |-> Undef,
             trace |-> <<>>, result |-> Undef]

\* the loop from its condition on, up to the next await or the end: the
\* operation is called while attempt <= maxRetries, else lastError is thrown
LoopFrom(e) ==
  IF e.attempt <= e.maxRetries
  THEN [e EXCEPT !.pc = "operation", !.trace = Append(@, Ran(e.attempt))]
  ELSE [e EXCEPT !.pc = "raised", !.result = e.lastError]

\* withRetry is entered: let lastError; for (let attempt = 1; ...)
EnterWithRetry ==
  /\ ev.op = "withRetry"
  /\ ev.pc = "entry"
  /\ ev' = LoopFrom(ev)
  /\ UNCHANGED <<fpVars, cacheVars, resolveVars, docVars>>

\* a catch block whose timer is of delay ms after every failed run
AfterOperationConstantWait(e) ==
  LET settled == Settlement(e.kinds[e.attempt], e.attempt)
  IN IF settled.fulfilled
     THEN [e EXCEPT !.pc = "returned", !.result = settled.with]
     ELSE IF logErrorThrows(settled.with)
     THEN [e EXCEPT !.pc = "raised", !.lastError = settled.with,
                    !.result = TypeErrorOfNull]
     ELSE IF e.attempt < e.maxRetries
     THEN [e EXCEPT !.pc = "timer", !.lastError = settled.with,
                    !.trace = Append(@, Waited(e.delay))]
     ELSE [e EXCEPT !.pc = "raised", !.lastError = settled.with,
                    !.attempt = @ + 1, !.result = settled.with]

\* the awaited operation settles: its value is returned; or the catch block
\* runs: lastError, logError, and a timer of delay * attempt when attempt <
\* maxRetries, else the next iteration
AfterOperation(e) ==
  LET settled == Settlement(e.kinds[e.attempt], e.attempt)
  IN IF settled.fulfilled
     THEN [e EXCEPT !.pc = "returned", !.result = settled.with]
     ELSE IF logErrorThrows(settled.with)
     THEN [e EXCEPT !.pc = "raised", !.lastError = settled.with,
                    !.result = TypeErrorOfNull]
     ELSE IF e.attempt < e.maxRetries
     THEN [e EXCEPT !.pc = "timer", !.lastError = settled.with,
                    !.trace = Append(@, Waited(e.delay * e.attempt))]
     ELSE LoopFrom([e EXCEPT !.lastError = settled.with, !.attempt = @ + 1])

OperationSettled ==
  /\ ev.op = "withRetry"
  /\ ev.pc = "operation"
  /\ ev' = AfterOperation(ev)
  /\ UNCHANGED <<fpVars, cacheVars, resolveVars, docVars>>

\* the timer fires: attempt++ and the loop goes on
TimerFired ==
  /\ ev.op = "withRetry"
  /\ ev.pc = "timer"
  /\ ev' = LoopFrom([ev EXCEPT !.attempt = @ + 1])
  /\ UNCHANGED <<fpVars, cacheVars, resolveVars, docVars>>

NextRetry == EnterWithRetry \/ OperationSettled \/ TimerFired

SpecRetry == InitRetry /\ [][NextRetry]_vars

\* the runs of the operation made so far, in order
RunsOf(trace) == SelectSeq(trace, LAMBDA s : s.what = "operation")

\* C24: withRetry runs the operation at most N times, one after the other;
\* it returns the value of the first run that succeeds and makes no run after
\* it; when all N runs fail it raises the error of run N
C24_RetryContract ==
  ev.op = "withRetry" =>
    LET made == Len(RunsOf(ev.trace))
        fails(k) == ~Settlement(ev.kinds[k], k).fulfilled
    IN /\ made <= ev.maxRetries
       /\ \A k \in 1..made : RunsOf(ev.trace)[k].n = k
       /\ \A k \in 1..(made - 1) : fails(k)
       /\ ev.pc = "returned" =>
            /\ ~fails(made)
            /\ ev.result = Settlement(ev.kinds[made], made).with
       /\ ev.pc = "raised" /\ ev.maxRetries >= 1 /\ (\A k \in 1..ev.maxRetries : fails(k)) =>
            ev.result = Settlement(ev.kinds[ev.maxRetries], ev.maxRetries).with


\* the contract for operations that fail with Error objects: at most N runs
\* in order, the first success returned, the error of run N raised
RetryContractForErrors ==
  ev.op = "withRetry" /\ (\A k \in DOMAIN ev.kinds : ev.kinds[k] # "null") =>
    LET made == Len(RunsOf(ev.trace))
        fails(k) == ev.kinds[k] = "error"
    IN /\ made <= ev.maxRetries
       /\ \A k \in 1..made : RunsOf(ev.trace)[k].n = k
       /\ \A k \in 1..(made - 1) : fails(k)
       /\ ev.pc = "returned" =>
            /\ ~fails(made)
            /\ ev.result = Settlement("value", made).with
       /\ ev.pc = "raised" /\ ev.maxRetries >= 1 =>
            /\ made = ev.maxRetries
            /\ fails(made)
            /\ ev.result = Settlement("error", made).with

\* C27: the steps of a call alternate between runs of the operation and
\* timers, beginning with run 1: the timer between run k and run k + 1 is of
\* delay * k ms, no timer precedes run 1, and a call that has ended has set no
\* timer after its last run
C27_LinearBackoff ==
  ev.op = "withRetry" =>
    /\ \A i \in DOMAIN ev.trace :
         ev.trace[i] = IF i % 2 = 1 THEN Ran((i + 1) \div 2)
                       ELSE Waited(ev.delay * (i \div 2))
    /\ ev.pc = "timer" <=> (ev.trace # <<>> /\ ev.trace[Len(ev.trace)].what = "timer")
    /\ ev.pc \in {"returned", "raised"} /\ ev.trace # <<>> =>
         ev.trace[Len(ev.trace)].what = "operation"

\* three failed runs with waits of 1000 ms and 2000 ms between them
C27_Witness ==
  /\ ev.op = "withRetry"
  /\ ev.pc = "raised"
  /\ ev.delay = 1000
  /\ ev.trace = <<Ran(1), Waited(1000), Ran(2), Waited(2000), Ran(3)>>


\* ------------------------------------------------------------------------
\* ErrorService.categorizeError and getUserFriendlyMessage
\* ------------------------------------------------------------------------

\* this.errorTypes
errorTypes ==
  [NETWORK |-> "network", VALIDATION |-> "validation", PARSING |-> "parsing",
   API |-> "api", UNKNOWN |-> "unknown"]

\* what a call ends with when it reads a property of undefined
ThrowsTypeError == "TypeError"

\* categorizeError(error): the first test that succeeds decides; reading
\* error.message.includes of a TypeError without a message throws
categorizeError(error) ==
  IF Get(error, "name") = Str("TypeError") /\ Get(error, "message").t # "str"
  THEN ThrowsTypeError
  ELSE IF Get(error, "name") = Str("TypeError") /\ includes(Get(error, "message").s, "fetch")
  THEN errorTypes.NETWORK
  ELSE IF Get(error, "name") = Str("SyntaxError")
  THEN errorTypes.PARSING
  ELSE IF Truthy(Get(error, "message")) /\ includes(Get(error, "message").s, "validation")
  THEN errorTypes.VALIDATION
  ELSE IF Truthy(Get(error, "status")) \/ Truthy(Get(error, "statusCode"))
  THEN errorTypes.API
  ELSE errorTypes.UNKNOWN

Friendly(title, message, action) == [title |-> title, message |-> message, action |-> action]

\* the case of this.errorTypes.API
ApiMessage(error) ==
  LET status == OrElse(Get(error, "status"), Get(error, "statusCode"))
  IN IF status = Num("404")
     THEN Friendly("Not Found",
                   "The requested resource was not found. This might be a temporary issue.",
                   "Retry")
     ELSE IF status = Num("429")
     THEN Friendly("Rate Limited",
                   "Too many requests. Please wait a moment and try again.",
                   "Wait and Retry")
     ELSE IF NumberOr0(status) >= 500
     THEN Friendly("Server Error",
                   "The server encountered an error. Please try again later.",
                   "Retry Later")
     ELSE Friendly("API Error",
                   "Request failed with status " \o StringOf(status) \o ". Please try again.",
                   "Retry")

\* getUserFriendlyMessage(error, context)
getUserFriendlyMessage(error, context) ==
  LET category == categorizeError(error)
  IN CASE category = ThrowsTypeError -> Friendly(ThrowsTypeError, "", "")
       [] category = errorTypes.NETWORK ->
            Friendly("Network Error",
                     "Unable to connect to the server. Please check your internet connection and try again.",
                     "Retry")
       [] category = errorTypes.PARSING ->
            Friendly("Invalid File Format",
                     "The uploaded file is not a valid JSON or CycloneDX SBOM format. Please check the file and try again.",
                     "Upload Different File")
       [] category = errorTypes.VALIDATION ->
            Friendly("Validation Error",
                     IF Truthy(Get(error, "message")) THEN Get(error, "message").s
                     ELSE "The provided data is invalid. Please check your input and try again.",
                     "Fix Input")
       [] category = errorTypes.API -> ApiMessage(error)
       [] OTHER ->
            Friendly("Unexpected Error",
                     IF context # "" THEN context
                     ELSE "An unexpected error occurred. Please try again or contact support if the problem persists.",
                     "Retry")

\* errors: names, messages and HTTP statuses around the classification's
\* tests; "" is an error without the field
ErrorNames == {"Error", "TypeError", "SyntaxError"}
ErrorMessages == {"", "Failed to fetch", "validation failed", "Request failed"}
Statuses == {"", "0", "200", "400", "404", "429", "500", "503"}
StatusCodes == {"", "404", "500"}

OptNum(digits) == IF digits = "" THEN Undef ELSE Num(digits)

ErrorWith(name, message, status, statusCode) ==
  Obj(PresentMems(<<Mem("name", Str(name)), Mem("message", OptStr(message)),
                    Mem("status", OptNum(status)),
                    Mem("statusCode", OptNum(statusCode))>>))

InitError ==
  /\ FpIdle
  /\ CacheConstructed
  /\ sources = <<>>
  /\ NothingUploaded
  /\ \E name \in ErrorNames, message \in ErrorMessages, status \in Statuses,
        statusCode \in StatusCodes :
       ev = [op |-> "error", name |-> name, message |-> message, status |-> status,
             statusCode |-> statusCode, category |-> "", ret |-> <<>>]

\* the error is categorized and its message for the user built
DescribeError ==
  LET error == ErrorWith(ev.name, ev.message, ev.status, ev.statusCode)
  IN /\ ev.op = "error"
     /\ ev' = [ev EXCEPT !.op = "described",
                         !.category = categorizeError(error),
                         !.ret = getUserFriendlyMessage(error, "")]
     /\ UNCHANGED <<fpVars, cacheVars, resolveVars, docVars>>

NextError == DescribeError

SpecError == InitError /\ [][NextError]_vars

\* the status an error carries: status, else statusCode; "" when it has none
\* (0 is no HTTP status)
CarriedStatus(e) == IF e.status \notin {"", "0"} THEN e.status ELSE e.statusCode

\* the title that belongs to a status
TitleOfStatus(digits) ==
  IF digits = "404" THEN "Not Found"
  ELSE IF digits = "429" THEN "Rate Limited"
  ELSE IF digits \in {"500", "503"} THEN "Server Error"
  ELSE "API Error"

\* C28: every error that carries an HTTP status is categorized api and its
\* title follows from the status alone (404 Not Found, 429 Rate Limited,
\* >= 500 Server Error, any other API Error), whatever its name and message
C28_StatusAlone ==
  ev.op = "described" /\ CarriedStatus(ev) # "" =>
    /\ ev.category = errorTypes.API
    /\ ev.ret.title = TitleOfStatus(CarriedStatus(ev))

\* the classification by status holds for the errors that pass the three
\* earlier tests: not a SyntaxError, not a TypeError whose message is missing
\* or mentions fetch, no message that mentions validation
StatusDecidesAfterEarlierTests ==
  /\ ev.op = "described"
  /\ CarriedStatus(ev) # ""
  /\ ev.name # "SyntaxError"
  /\ ev.name = "TypeError" => ev.message \notin {"", "Failed to fetch"}
  /\ ev.message # "validation failed"
  => /\ ev.category = errorTypes.API
     /\ ev.ret.title = TitleOfStatus(CarriedStatus(ev))


\* ------------------------------------------------------------------------
\* generateUniqueIdentifier: the precedence of its three forms
\* ------------------------------------------------------------------------

\* package-urls of a component with their type and last path segment; a purl
\* without "/" and a component without purl have neither
PurlCases ==
  {[purl |-> "", type |-> "", last |-> ""],
   [purl |-> "a@1", type |-> "", last |-> ""],
   [purl |-> "pkg:npm/a@1", type |-> "npm", last |-> "a@1"],
   [purl |-> "pkg:maven/g/a@1", type |-> "maven", last |-> "a@1"]}

\* what is known of the package: nothing, ecosystem and name, a Maven package
\* with and without group, an ecosystem without a name
PkgInfoCases ==
  {[ecosystem |-> "", name |-> "", group |-> ""],
   [ecosystem |-> "npm", name |-> "a", group |-> ""],
   [ecosystem |-> "Maven", name |-> "a", group |-> "g"],
   [ecosystem |-> "maven", name |-> "a", group |-> ""],
   [ecosystem |-> "PyPI", name |-> "a", group |-> "g"],
   [ecosystem |-> "npm", name |-> "", group |-> ""]}

IdentifierSuppliers == {"Open-source", "Vendor", "Third-party"}

InitIdentifier ==
  /\ FpIdle
  /\ CacheConstructed
  /\ sources = <<>>
  /\ NothingUploaded
  /\ \E p \in PurlCases, info \in PkgInfoCases, name \in {"", "a"}, version \in {"", "1"},
        supplier \in IdentifierSuppliers :
       ev = [op |-> "component", p |-> p, info |-> info, name |-> name,
             version |-> version, supplier |-> supplier, ret |-> Undef]

\* generateUniqueIdentifier(component, pkgInfo, supplier) for the drawn
\* component and package information
GenerateIdentifier ==
  /\ ev.op = "component"
  /\ ev' = [ev EXCEPT
              !.op = "identifier",
              !.ret = generateUniqueIdentifier(
                        Obj(PresentMems(<<Mem("name", OptStr(ev.name)),
                                          Mem("version", OptStr(ev.version)),
                                          Mem("purl", OptStr(ev.p.purl))>>)),
                        Obj(PresentMems(<<Mem("ecosystem", OptStr(ev.info.ecosystem)),
                                          Mem("name", OptStr(ev.info.name)),
                                          Mem("group", OptStr(ev.info.group))>>)),
                        Str(ev.supplier))]
  /\ UNCHANGED <<fpVars, cacheVars, resolveVars, docVars>>

NextIdentifier == GenerateIdentifier

SpecIdentifier == InitIdentifier /\ [][NextIdentifier]_vars

\* the ecosystem in lower case
LowerEcosystem(text) ==
  IF text = "Maven" THEN "maven" ELSE IF text = "PyPI" THEN "pypi" ELSE text

\* C26: a purl containing "/" gives pkg:supplier/<supplier>/<type>/<last
\* path segment>; otherwise a known ecosystem and name give
\* pkg:supplier/<supplier>/<ecosystem>/<name>, with the group before the name
\* for Maven and "@version" after it when the version is known; otherwise the
\* component's name, else NA
C26_IdentifierPrecedence ==
  ev.op = "identifier" =>
    LET at == IF ev.version = "" THEN "" ELSE "@" \o ev.version
        eco == LowerEcosystem(ev.info.ecosystem)
        base == "pkg:supplier/" \o ev.supplier \o "/"
    IN ev.ret.s =
         IF ev.p.type # "" THEN base \o ev.p.type \o "/" \o ev.p.last
         ELSE IF ev.info.ecosystem # "" /\ ev.info.name # ""
         THEN IF eco = "maven" /\ ev.info.group # ""
              THEN base \o eco \o "/" \o ev.info.group \o "/" \o ev.info.name \o at
              ELSE base \o eco \o "/" \o ev.info.name \o at
         ELSE IF ev.name # "" THEN ev.name
         ELSE "NA"

\* a Maven component whose purl has no "/": the identifier is synthesized
\* with group and version
C26_Witness ==
  /\ ev.op = "identifier"
  /\ ev.p.purl = "a@1"
  /\ ev.info.ecosystem = "Maven"
  /\ ev.version = "1"
  /\ ev.ret = Str("pkg:supplier/Vendor/maven/g/a@1")


\* ------------------------------------------------------------------------
\* Overlapping resolutions of one component
\* ------------------------------------------------------------------------

\* the fingerprint a completing call writes under already has a value: the
\* call found none when it started, so the value was written while the call
\* was suspended, by a resolution that overlaps it
WrittenMeanwhile(c, v) == MapHas(cache, ChecksumOf(c, v))

\* C25: when a completing resolution writes under a fingerprint that an
\* overlapping resolution has written under, it writes the same PropertySet,
\* so the cached value does not depend on which of them completes last
C25_OverlappingWritersAgree ==
  [][(ev'.op = "settle" /\ tasks' # tasks /\ WrittenMeanwhile(ev'.c, ev'.v))
       => cache'[ChecksumOf(ev'.c, ev'.v)] = cache[ChecksumOf(ev'.c, ev'.v)]]_vars


\* ------------------------------------------------------------------------
\* fetchComponentData on vulnerability input the fingerprint cannot read
\* ------------------------------------------------------------------------

\* sbomVulnerabilities.filter(v => v.affects && v.affects.some(...)) throws a
\* TypeError when the input is no array, when a record is null, and when a
\* record's affects is there and is no array
FilterThrows(sbomVulnerabilities) ==
  \/ sbomVulnerabilities.t # "arr"
  \/ \E i \in 1..Len(sbomVulnerabilities.e) :
       LET v == sbomVulnerabilities.e[i]
       IN \/ v.t \in {"null", "undef"}
          \/ /\ v.t = "obj"
             /\ Truthy(Get(v, "affects"))
             /\ Get(v, "affects").t # "arr"

\* generateComponentChecksum(component, sbomVulnerabilities) throws
ChecksumThrows(component, sbomVulnerabilities) == FilterThrows(sbomVulnerabilities)

\* the TypeError of the filter
TypeErrorOfFilter ==
  Obj(<<Mem("name", Str("TypeError")), Mem("message", Str("not a function"))>>)

\* what json.vulnerabilities || [] can be after JSON.parse of an upload
\* nobody validated: a list without records, an object, a list with a null,
\* a record whose affects is one entry instead of a list of entries
VulnerabilityInputs ==
  {Arr(<<>>),
   Obj(<<Mem("V1", Str("HIGH"))>>),
   Arr(<<Null>>),
   Arr(<<Obj(<<Mem("id", Str("V1")),
               Mem("affects", Obj(<<Mem("ref", Str("r1"))>>))>>)>>)}

\* fetchComponentData(c, sbomVulnerabilities) when the fingerprint throws:
\* hasComponentResult throws inside the try block, the catch block logs,
\* builds errorProps and calls setComponentResult, which computes the same
\* fingerprint and throws again: the promise is rejected, nothing is cached
ResolveUnreadable(c, sbomVulnerabilities) ==
  /\ ChecksumThrows(ParseComponent(c), sbomVulnerabilities)
  /\ ~logErrorThrows(TypeErrorOfFilter)
  /\ ev' = [op |-> "resolve", c |-> c, v |-> sbomVulnerabilities,
            path |-> "rejected", ret |-> TypeErrorOfFilter, called |-> {}]
  /\ UNCHANGED <<fpVars, cacheVars, resolveVars, docVars>>

NextUnreadable ==
  \/ \E c \in ResolveComponents, v \in ResolveVulnerabilityLists : Resolve(c, v)
  \/ \E i \in 1..Len(tasks), outcome \in ResolveOutcomes : Settle(i, outcome)
  \/ \E c \in ResolveComponents, input \in VulnerabilityInputs : ResolveUnreadable(c, input)

SpecUnreadable == InitResolve /\ [][NextUnreadable]_vars

\* props is a PropertySet: a value for each of the twelve properties
IsPropertySet(props) ==
  DOMAIN props = {CERT_IN_PROPERTIES[i] : i \in DOMAIN CERT_IN_PROPERTIES}

\* a call has returned: at once, or from its await
Returned == (ev.op = "resolve" /\ ev.path # "fetch") \/ ev.op = "settle"

\* C29: a call of fetchComponentData that has returned has fulfilled its
\* promise with a PropertySet, and the cache holds that set under the
\* component's fingerprint
C29_NeverPropagates ==
  Returned =>
    /\ ev.path # "rejected"
    /\ IsPropertySet(ev.ret)
    /\ MapGet(cache, ChecksumOf(ev.c, ev.v)) = ev.ret

\* on vulnerability lists the fingerprint can read, the call fulfils with a
\* PropertySet that the cache holds, whatever the sources' outcomes
ReadableNeverPropagates ==
  Returned /\ ev.path # "rejected" =>
    /\ IsPropertySet(ev.ret)
    /\ MapGet(cache, ChecksumOf(ev.c, ev.v)) = ev.ret


\* ------------------------------------------------------------------------
\* Uploads with the progress display: every run ends and the display
\* returns to idle
\* ------------------------------------------------------------------------

\* timers set and not yet fired that the App is followed with
MaxTimers == 3

\* the runs that await their components
PendingRuns == Cardinality({r \in DOMAIN runs : ~runs[r].done})

\* setFetchProgress(value) with n more timers of 600 ms set
Shown(value, n) == [value |-> Num(value), timers |-> fetchProgress.timers + n]

\* setTimeout(() => { setFetchProgress(null); setFetchLabel(""); }, 600)
AfterTimer(p) == [value |-> Null, timers |-> p.timers - 1]

\* reader.onload with the display: a run served from the file cache shows
\* 100 and sets its timer, returns, and its finally block shows 100 and sets
\* a second timer; a run that awaits its components shows 10; a run none of
\* whose calls suspends shows 90, then 100 from its finally block
UploadShown(d) ==
  /\ UploadRun(d)
  /\ fetchProgress' = IF ev'.path = "hit" THEN Shown("100", 2)
                      ELSE IF ev'.path = "pending" THEN Shown("10", 0)
                      ELSE Shown("100", 1)
  /\ fetchProgress'.timers + PendingRuns + (IF ev'.path = "pending" THEN 1 ELSE 0)
       <= MaxTimers
  /\ UNCHANGED <<sbom, notification>>

\* a joint await completes; when it ends its run the display shows 90, then
\* 100 from the finally block, which sets the timer
SettleShown(i, outcome) ==
  /\ i \in DOMAIN tasks
  /\ SettleRun(i, outcome)
  /\ fetchProgress' = IF ev'.finished THEN Shown("100", 1) ELSE fetchProgress
  /\ UNCHANGED <<sbom, notification>>

\* a timer fires
ProgressTimer ==
  /\ fetchProgress.timers > 0
  /\ fetchProgress' = AfterTimer(fetchProgress)
  /\ ev' = [op |-> "timer"]
  /\ UNCHANGED <<fpVars, cacheVars, resolveVars, runs, components, completed, sbom,
                 notification>>

\* an uploaded document whose vulnerabilities field the component
\* fingerprint cannot read
UnreadableDoc(input) ==
  [components |-> <<CompNpm>>, hasVulnerabilities |-> TRUE, vulnerabilities |-> input,
   timestamp |-> "t1"]

\* JSON.parse of such a document
ParseUnreadable(d) ==
  Obj(<<Mem("bomFormat", Str("CycloneDX")),
        Mem("metadata", Obj(<<Mem("timestamp", Str(d.timestamp)),
                              Mem("version", Num("1"))>>)),
        Mem("components",
            Arr([i \in 1..Len(d.components) |-> ParseComponent(d.components[i])])),
        Mem("vulnerabilities", d.vulnerabilities)>>)

\* reader.onload on such a document: on a miss of the file cache every
\* fetchComponentData call is rejected, .catch(() => ({})) turns each
\* rejection into an empty result, and the run merges, displays and caches
\* the list and ends in its finally block
UploadUnreadableAs(d, key, rejects) ==
  LET updated == updatedComponents(d)
      merged == MergeProperties(updated, [i \in DOMAIN updated |-> <<>>])
      hit == MapHas(cache, key)
      list == IF hit THEN MapGet(cache, key).components ELSE merged
  IN /\ rejects
     /\ cache' = IF hit THEN cache ELSE setFileResult(cache, key, merged)
     /\ IF hit THEN UNCHANGED storage ELSE saveToStorage(cache')
     /\ lastSet' = LastSetAfter(cache, cache')
     /\ components' = list
     /\ completed' = IF hit THEN completed ELSE CompletedAfter(d, key, merged)
     /\ fetchProgress' = IF hit THEN Shown("100", 2) ELSE Shown("100", 1)
     /\ fetchProgress'.timers + PendingRuns <= MaxTimers
     /\ ev' = [op |-> "upload", doc |-> d, path |-> IF hit THEN "hit" ELSE "rejected",
               ret |-> list, started |-> IF hit THEN 0 ELSE Len(d.components),
               called |-> {}]
     /\ UNCHANGED <<fpVars, sessionStartTime, storageWritable, now, resolveVars, runs,
                    sbom, notification>>

UploadUnreadable(input) ==
  UploadUnreadableAs(UnreadableDoc(input),
                     generateFileChecksum(ParseUnreadable(UnreadableDoc(input))),
                     \A i \in DOMAIN UnreadableDoc(input).components :
                        ChecksumThrows(ParseComponent(UnreadableDoc(input).components[i]),
                                       input))

\* documents of one and of two components
ProgressDocs == {DocNpm, DocBoth}

\* the repository call delivers or rejects
ProgressOutcomes == {o \in DocOutcomes : o.gh # "null"}

NextProgress ==
  \/ \E d \in ProgressDocs : UploadShown(d)
  \/ \E i \in 1..Len(tasks), outcome \in ProgressOutcomes : SettleShown(i, outcome)
  \/ \E input \in VulnerabilityInputs : UploadUnreadable(input)
  \/ ProgressTimer

\* suspended call i resumes: the external calls it awaits have settled; the
\* steps that take call i off the suspended calls are those of SettleShown
Resumes(i) ==
  /\ i \in DOMAIN tasks
  /\ tasks' = SubSeq(tasks, 1, i - 1) \o SubSeq(tasks, i + 1, Len(tasks))

\* every external call settles and every timer fires
SpecProgress ==
  /\ InitDoc
  /\ [][NextProgress]_vars
  /\ \A i \in 1..MaxInFlight : WF_tasks(Resumes(i))
  /\ WF_vars(ProgressTimer)

\* call idx of run r is suspended at its joint await
Suspended(r, idx) ==
  \E i \in DOMAIN tasks : tasks[i].run = r /\ tasks[i].idx = idx

\* call idx of run r has returned a PropertySet to its run
Terminal(r, idx) ==
  /\ r \in DOMAIN runs
  /\ ~Suspended(r, idx)
  /\ \/ runs[r].done
     \/ /\ idx \in DOMAIN runs[r].results
        /\ idx \notin runs[r].pending
        /\ IsPropertySet(runs[r].results[idx])

\* run r, started by an upload of d, awaits its components
Running(r, d) == r \in DOMAIN runs /\ ~runs[r].done /\ runs[r].doc = d

\* run r has merged, displayed and cached the list of d
Published(r, d) == r \in DOMAIN runs /\ runs[r].done /\ \E h \in completed : h.doc = d

\* under fairness every suspended fetchComponentData call returns a
\* PropertySet, every run that awaits its components ends with its merged
\* list on display, and a progress display that is not idle becomes idle
EverythingFinishes ==
  /\ \A r \in 1..MaxRuns, idx \in 1..MaxDocComponents :
       Suspended(r, idx) ~> Terminal(r, idx)
  /\ \A r \in 1..MaxRuns, d \in ProgressDocs : Running(r, d) ~> Published(r, d)
  /\ (fetchProgress.value # Null) ~> (fetchProgress.value = Null)

\* the calls of the latest upload were rejected
CallsRejected == ev.op = "upload" /\ ev.path = "rejected"

\* C30: when every external call settles, every fetchComponentData call
\* ends Resolved or ResolvedWithErrors, that is, with a PropertySet, and every
\* run started by an upload ends with its merged list on display and the
\* progress display back at idle (null)
C30_AllCallsAndRunsEnd ==
  /\ [](~CallsRejected)
  /\ \A r \in 1..MaxRuns, idx \in 1..MaxDocComponents :
       Suspended(r, idx) ~> Terminal(r, idx)
  /\ \A r \in 1..MaxRuns, d \in ProgressDocs : Running(r, d) ~> Published(r, d)
  /\ (fetchProgress.value # Null) ~> (fetchProgress.value = Null)

\* a timer has reset the display after a run of two components ended
EverythingFinishesWitness ==
  /\ ev.op = "timer"
  /\ fetchProgress = ProgressIdle
  /\ runs # <<>>
  /\ \A r \in DOMAIN runs : runs[r].done
  /\ \E h \in completed : h.doc = DocBoth


\* ------------------------------------------------------------------------
\* What a whole-document cache hit puts on display
\* ------------------------------------------------------------------------

\* list describes the components of document d: one element per component,
\* with the component's name, version and package-url at the same index
DescribesDocument(list, d) ==
  /\ Len(list) = Len(d.components)
  /\ \A i \in DOMAIN list :
       /\ i \in DOMAIN d.components
       /\ list[i].component.name = d.components[i].name
       /\ list[i].component.version = d.components[i].version
       /\ list[i].component.purl = d.components[i].purl

\* C31: on a whole-document cache hit the component list that the upload
\* returns and displays describes the uploaded document: it has as many
\* elements as the document has components, and its i-th element has the
\* name, version and package-url of the document's i-th component, whatever
\* documents were processed before and in whatever order.
C31_HitDescribesDocument ==
  (ev.op = "upload" /\ ev.path = "hit")
    => (DescribesDocument(ev.ret, ev.doc) /\ DescribesDocument(components, ev.doc))


\* ------------------------------------------------------------------------
\* The age of an entry across page loads
\* ------------------------------------------------------------------------

\* the value a caller stores at instant t: the reading of the clock, so that
\* an entry tells when it was written
Stamp(t) == Num(ToString(t))

\* the instant the stored value was written at
WrittenAt(value) == CHOOSE t \in Instants : Stamp(t) = value

\* set(key, Date.now())
CallSetStamped(key) ==
  /\ set(key, Stamp(now))
  /\ ev' = [op |-> "set", key |-> key, value |-> Stamp(now), prev |-> get(key)]
  /\ UNCHANGED <<fpVars, resolveVars, docVars>>

NextAge ==
  \/ \E key \in LoadKeys : CallSetStamped(key)
  \/ \E t \in Instants : Advance(t)
  \/ CallRestart

SpecAge == InitLoad /\ [][NextAge]_vars

\* C32: a cached entry lives at most 24 hours: a CacheService constructed at
\* some instant holds, until its next write, only entries that were written
\* by a set less than maxCacheAge before that instant, whatever other writes
\* occurred in between.
C32_EntryLivesOneDay ==
  ev.op = "construct"
    => \A k \in DOMAIN cache : ev.at - WrittenAt(cache[k]) < maxCacheAge

\* the same for the snapshot as a whole, which is what loadFromStorage tests:
\* a construction keeps entries only when the latest write of any entry was
\* less than maxCacheAge before it
SnapshotLivesOneDay ==
  (ev.op = "construct" /\ cache # EmptyMap)
    => \E k \in DOMAIN cache : ev.at - WrittenAt(cache[k]) < maxCacheAge


\* ------------------------------------------------------------------------
\* Clearing the cache while component resolutions are in flight
\* ------------------------------------------------------------------------

\* the App with its "Clear Cache" button: uploads, the completions of the
\* suspended calls, and clearCache
NextCleared ==
  \/ \E d \in ProgressDocs : Upload(d)
  \/ \E i \in 1..Len(tasks), outcome \in ProgressOutcomes : Settle(i, outcome)
  \/ CallForceClear

SpecCleared == InitDoc /\ [][NextCleared]_vars

\* C33: after forceClear the cache stays empty and no snapshot is persisted
\* until a new document resolution is started: the step that follows a
\* forceClear, unless it is an upload, leaves the Map empty and localStorage
\* without a snapshot, also when it is the completion of a component
\* resolution that was in flight when the cache was cleared.
C33_ClearedStaysEmpty ==
  [][(ev.op = "forceClear" /\ ev'.op # "upload")
       => (cache' = EmptyMap /\ storage' = NoSnapshot)]_vars

\* what forceClear itself leaves: an empty Map and nothing stored
ClearedIsEmpty == ev.op = "forceClear" => (cache = EmptyMap /\ storage = NoSnapshot)


\* ------------------------------------------------------------------------
\* The document and the notification on display
\* ------------------------------------------------------------------------

\* the sbom state: the uploaded JSON with its components replaced by list
SbomOf(d, list) ==
  [timestamp |-> d.timestamp, hasVulnerabilities |-> d.hasVulnerabilities,
   vulnerabilities |-> d.vulnerabilities, components |-> list]

\* setSbom((prev) => ({ ...(prev || {}), components: list }))
SbomWith(prev, list) ==
  IF prev = Null THEN [components |-> list] ELSE [prev EXCEPT !.components = list]

\* showNotification of the cache-hit branch
LoadedNotification(n) ==
  [message |-> "Successfully loaded " \o ToString(n) \o " components from cache!",
   type |-> "success"]

\* showNotification of the finally block
ProcessedNotification(n) ==
  [message |-> "Successfully processed " \o ToString(n)
                 \o " components with CERT-In properties!",
   type |-> "success"]

\* the notifications that the background run of an upload of d shows up to
\* its return or its first suspension, in order
UploadNotifications(d, path) ==
  CASE path = "hit" -> <<LoadedNotification(Len(updatedComponents(d))),
                         ProcessedNotification(Len(updatedComponents(d)))>>
    [] path = "pending" -> <<>>
    [] OTHER -> <<ProcessedNotification(Len(updatedComponents(d)))>>

\* the notification state after showNotification was called for each of shown
LastShown(prev, shown) == IF shown = <<>> THEN prev ELSE shown[Len(shown)]

\* reader.onload with the document and the notification on display: setSbom
\* and setComponents show the uploaded document; a run served from the file
\* cache shows the cached list and the notification of the cache, returns,
\* and its finally block shows the notification of the processed run; a run
\* none of whose calls suspends shows the merged list and, from its finally
\* block, the same notification; a run that awaits its components shows
\* nothing more yet
UploadDisplayed(d) ==
  /\ UploadRun(d)
  /\ sbom' = SbomWith(SbomOf(d, updatedComponents(d)), components')
  /\ notification' = LastShown(notification, UploadNotifications(d, ev'.path))
  /\ UNCHANGED fetchProgress

\* a joint await completes; when it ends its run the merged list is put into
\* the document on display, and the finally block shows its notification
SettleDisplayed(i, outcome) ==
  /\ SettleRun(i, outcome)
  /\ sbom' = IF ev'.finished THEN SbomWith(sbom, components') ELSE sbom
  /\ notification' = IF ev'.finished THEN ProcessedNotification(Len(components'))
                     ELSE notification
  /\ UNCHANGED fetchProgress

NextDisplay ==
  \/ \E d \in DisplayDocs : UploadDisplayed(d)
  \/ \E i \in 1..Len(tasks), outcome \in ProgressOutcomes : SettleDisplayed(i, outcome)

SpecDisplay == InitDoc /\ [][NextDisplay]_vars

\* the document uploaded last, which the metadata on display tell
LatestUploaded == CHOOSE d \in DisplayDocs : d.timestamp = sbom.timestamp

\* C34: if a second document is uploaded while the background resolution of
\* a first upload is still in flight, then once both resolutions have
\* finished the component list on display, in the components state and in
\* sbom.components, is the one derived from the document uploaded last, in
\* whatever order the two resolutions complete.
C34_LatestUploadDisplayed ==
  (sbom # Null /\ tasks = <<>>)
    => /\ DescribesDocument(components, LatestUploaded)
       /\ DescribesDocument(sbom.components, LatestUploaded)

\* the two lists on display are the same list
SbomFollowsComponents == sbom # Null => sbom.components = components

\* uploads that follow one another: an upload made while no resolution is in
\* flight puts its own document on display
AloneShowsOwnDocument ==
  [][(ev'.op = "upload" /\ tasks = <<>>)
       => DescribesDocument(components', ev'.doc)]_vars


\* C36: the notification "Successfully processed N components with CERT-In
\* properties!" is shown only after a background resolution that completed
\* without error: after an upload served from the whole-document cache the
\* notification on display is the "loaded from cache" notification, and the
\* notification of a processed run is on display only when some run was
\* completed by resolving its components.
C36_ProcessedOnlyAfterResolution ==
  /\ (ev.op = "upload" /\ ev.path = "hit")
       => notification = LoadedNotification(Len(ev.doc.components))
  /\ (notification # Null /\ notification # LoadedNotification(Len(components)))
       => completed # {}

\* the notification of a processed run is on display whenever a run has
\* ended, whichever way it went
ProcessedAfterEveryRun ==
  /\ (ev.op = "upload" /\ ev.path # "pending")
       => notification = ProcessedNotification(Len(ev.doc.components))
  /\ (ev.op = "settle" /\ ev.finished)
       => notification = ProcessedNotification(Len(components))


\* ------------------------------------------------------------------------
\* The export buttons while a run is in the background
\* ------------------------------------------------------------------------

\* disabled={fetchProgress !== null} on the JSON, the CSV and the XLSX button
ExportsDisabled == fetchProgress.value # Null

\* C35: whenever a background run started by an upload has not yet finished,
\* the fetch progress is non-null and the three export buttons are
\* disabled, also when several uploads overlap and their timers fire in any
\* order.
C35_ExportsDisabledWhileRunning == PendingRuns > 0 => ExportsDisabled


\* ------------------------------------------------------------------------
\* The Unique Identifiers of two components
\* ------------------------------------------------------------------------

\* package-urls with a "/": an artifact under two Maven groups, two npm
\* packages, a scoped npm package and a PyPI package
DistinctPurls ==
  {"pkg:maven/g1/a@1", "pkg:maven/g2/a@1", "pkg:npm/a@1", "pkg:npm/b@1",
   "pkg:npm/@s/a@1", "pkg:pypi/a@1"}

\* what is known of the package of either component
DistinctPkgInfos ==
  {[ecosystem |-> "", name |-> "", group |-> ""],
   [ecosystem |-> "Maven", name |-> "a", group |-> "g1"]}

\* the component with the given package-url
IdentifiedComponent(purl) ==
  Obj(<<Mem("name", Str("a")), Mem("version", Str("1")), Mem("purl", Str(purl))>>)

IdentifiedPkgInfo(info) ==
  Obj(PresentMems(<<Mem("ecosystem", OptStr(info.ecosystem)),
                    Mem("name", OptStr(info.name)),
                    Mem("group", OptStr(info.group))>>))

InitDistinct ==
  /\ FpIdle
  /\ CacheConstructed
  /\ sources = <<>>
  /\ NothingUploaded
  /\ \E first \in DistinctPurls, second \in DistinctPurls, info \in DistinctPkgInfos,
        supplier \in IdentifierSuppliers :
       ev = [op |-> "components", first |-> first, second |-> second, info |-> info,
             supplier |-> supplier, ret |-> <<>>]

\* generateUniqueIdentifier for the two drawn components, which resolve to
\* the same supplier
GenerateIdentifiers ==
  /\ ev.op = "components"
  /\ ev' = [ev EXCEPT
              !.op = "identifiers",
              !.ret = <<generateUniqueIdentifier(IdentifiedComponent(ev.first),
                                                 IdentifiedPkgInfo(ev.info),
                                                 Str(ev.supplier)),
                        generateUniqueIdentifier(IdentifiedComponent(ev.second),
                                                 IdentifiedPkgInfo(ev.info),
                                                 Str(ev.supplier))>>]
  /\ UNCHANGED <<fpVars, cacheVars, resolveVars, docVars>>

NextDistinct == GenerateIdentifiers

SpecDistinct == InitDistinct /\ [][NextDistinct]_vars

\* C37: two components that carry different package-urls and resolve to the
\* same supplier are given different Unique Identifiers.
C37_IdentifiersDistinguish ==
  (ev.op = "identifiers" /\ ev.first # ev.second) => ev.ret[1] # ev.ret[2]

\* components whose package-urls differ in the type or in the last path
\* segment are given different Unique Identifiers
TypeAndLastSegmentDistinguish ==
  (ev.op = "identifiers"
   /\ ev.first # ev.second
   /\ {ev.first, ev.second} # {"pkg:maven/g1/a@1", "pkg:maven/g2/a@1"}
   /\ {ev.first, ev.second} # {"pkg:npm/a@1", "pkg:npm/@s/a@1"})
    => ev.ret[1] # ev.ret[2]

====
